---- MODULE Spec2Model ----
(***************************************************************************)
(* Screenshot-to-board reconstruction pipeline of AACProcessors            *)
(* (aac_processors/optional/screenshot_processor.py) as a state machine.   *)
(*                                                                         *)
(* Strings are sequences of one-character strings, so that strip(),        *)
(* lower(), join() and substring tests are computed, not assumed.          *)
(* Optional[int] is <<>> for None and <<n>> for the integer n.             *)
(* Fractions of the source are kept exact: area percentages are in         *)
(* 1/10000, aspect ratios in 1/10, OCR confidences in 1/100.               *)
(***************************************************************************)
EXTENDS Integers, Sequences, FiniteSets, TLC

(***************************************************************************)
(* Bounds of the model.                                                    *)
(***************************************************************************)
\* hints grid_rows / grid_cols are drawn from {None, -1, 0, 1..MaxHint}
MaxHint == 3
\* ignore_rows is drawn from 0..MaxIgnoreRows
MaxIgnoreRows == 1

\* longest list of text regions given to merge_nearby_regions
MaxRegions == 3

\* the longest text the OCR of one cell gives
MaxText == 3

\* the most boxes of a box list whose cell size is estimated
MaxBoxes == 11

(***************************************************************************)
(* Record shapes.  Every record of the model is built by one of these      *)
(* constructors.                                                           *)
(***************************************************************************)
\* what detect_grid returns, with what the call did on its way: whether the
\* boxes come from an accepted attempt, the combinations tried, the files written
GridDetected(gw, gh, boxes, acc, tried, files) ==
    [ok |-> TRUE, grid_width |-> gw, grid_height |-> gh, best_boxes |-> boxes,
     accepted |-> acc, attempts |-> tried, written |-> files]

\* an error raised by detect_grid
GridError(e, files) == [ok |-> FALSE, written |-> files, error |-> e]

SweepResult(boxes, tried) == [best_boxes |-> boxes, attempts |-> tried]

\* what reader.readtext gives: an error or results
OcrResult(good, found) == [ok |-> good, results |-> found]

\* a contour: contourArea, the length of approxPolyDP's polygon, boundingRect
Contour(box, a, n) == [rect |-> box, area |-> a, nverts |-> n]

\* a text fragment of an image, as the OCR engine sees it
Fragment(px, py, t, c, f) == [x |-> px, y |-> py, text |-> t, conf |-> c, fault |-> f]

ImageFile(st, good, w, h, cs, ts) ==
    [stem |-> st, decodable |-> good, width |-> w, height |-> h,
     contours |-> cs, texts |-> ts]

DiskState(files, stamps) == [written |-> files, stamped |-> stamps]

\* AACTree: pages is the dict in insertion order, root_id <<>> for None
Tree(ps, root) == [pages |-> ps, root_id |-> root]

\* AACPage
Page(i, n, g, bs) == [id |-> i, name |-> n, grid_size |-> g, buttons |-> bs]

\* ButtonStyle
Style(c) == [body_color |-> c]

\* AACButton
Button(i, l, ty, pos, st) ==
    [id |-> i, label |-> l, type |-> ty, position |-> pos, style |-> st]

\* a call of the processor p
Request(o, p, path, rows, cols, ignore) ==
    [op |-> o, proc |-> p, image_path |-> path, grid_rows |-> rows,
     grid_cols |-> cols, ignore_rows |-> ignore]

\* a text region: the dict with "box", "text" and "confidence"
Region(b, t, c) == [box |-> b, text |-> t, confidence |-> c]

\* what a call returned (page, tree, texts, grid) or raised (error)
Outcome(k, v) == [kind |-> k, value |-> v]

\* the dict detect_cell_content returns: "text" and "color" (b, g, r)
Content(t, c) == [text |-> t, color |-> c]

\* the locals of create_page_from_screenshot before the image is read
NoFrame == [actual_rows |-> 0, actual_cols |-> 0, detected_rows |-> 0,
            detected_cols |-> 0, grid_boxes |-> <<>>,
            grid_origin_x |-> 0, grid_origin_y |-> 0,
            mode_width |-> 0, mode_height |-> 0, row |-> 0, col |-> 0,
            debug_texts |-> <<>>, ocr_calls |-> <<>>, img_texts |-> <<>>]

(***************************************************************************)
(* Generic sequence helpers.                                               *)
(***************************************************************************)
None == <<>>

Some(n) == <<n>>

IsNone(v) == v = <<>>

Val(v) == v[1]

Min2(a, b) == IF a < b THEN a ELSE b

Max2(a, b) == IF a > b THEN a ELSE b

Abs(a) == IF a < 0 THEN -a ELSE a

\* Python's truthiness of an Optional[int]: None and 0 are falsy
Truthy(v) == ~IsNone(v) /\ Val(v) # 0

\* min(list) of a non-empty list
SeqMin(s) == CHOOSE m \in {s[i] : i \in 1..Len(s)} : \A i \in 1..Len(s) : m <= s[i]

RECURSIVE LexLess(_, _)
\* Python's tuple comparison a < b for integer tuples of one length
LexLess(a, b) ==
    IF a = <<>> THEN FALSE
    ELSE IF a[1] # b[1] THEN a[1] < b[1]
    ELSE LexLess(Tail(a), Tail(b))

\* list.sort(key=...) on <<key, value>> pairs: a stable sort by key; the
\* element at index i goes to the place that counts the elements before it
SortKeyed(s) ==
    LET rank(i) == Cardinality({j \in 1..Len(s) :
                       \/ LexLess(s[j][1], s[i][1])
                       \/ (s[j][1] = s[i][1] /\ j <= i)})
    IN [r \in 1..Len(s) |-> s[CHOOSE i \in 1..Len(s) : rank(i) = r]]

Values(s) == [i \in 1..Len(s) |-> s[i][2]]

\* sorted(list of int)
SortInts(s) == Values(SortKeyed([i \in 1..Len(s) |-> <<(<<s[i]>>), s[i]>>]))

(***************************************************************************)
(* _try_detection: one pass of the contour filter.  The contours of an     *)
(* image are what cv2.findContours returns for it: records                 *)
(* [area, nverts, rect], nverts being the length of approxPolyDP's         *)
(* polygon and rect = <<x, y, w, h>> the bounding rectangle.               *)
(***************************************************************************)
BoundingRect(cnt) == cnt.rect

\* (overlap_x * overlap_y) / (w * h) > 0.5
OverlapsMoreThanHalf(box, existing) ==
    LET x == box[1]
        y == box[2]
        w == box[3]
        h == box[4]
        ex == existing[1]
        ey == existing[2]
        ew == existing[3]
        eh == existing[4]
        overlap_x == Max2(0, Min2(x + w, ex + ew) - Max2(x, ex))
        overlap_y == Max2(0, Min2(y + h, ey + eh) - Max2(y, ey))
    IN 2 * (overlap_x * overlap_y) > w * h

\* min_area < area < max_area, with min_area = rows * cols * area_min_pct
AreaInRange(img, cnt, area_range) ==
    /\ img.height * img.width * area_range[1] < cnt.area * 10000
    /\ cnt.area * 10000 < img.height * img.width * area_range[2]

\* aspect_min < float(w) / h < aspect_max
AspectInRange(cnt, aspect_range) ==
    LET w == BoundingRect(cnt)[3]
        h == BoundingRect(cnt)[4]
    IN aspect_range[1] * h < 10 * w /\ 10 * w < aspect_range[2] * h

IsUnique(cnt, cell_contours) ==
    \A i \in 1..Len(cell_contours) :
        ~OverlapsMoreThanHalf(BoundingRect(cnt), BoundingRect(cell_contours[i]))

RECURSIVE FilterContours(_, _, _, _, _)
\* the loop over contours; cell_contours accumulates the accepted ones
FilterContours(img, contours, area_range, aspect_range, cell_contours) ==
    IF contours = <<>> THEN cell_contours
    ELSE LET cnt == Head(contours)
             keep == /\ AreaInRange(img, cnt, area_range)
                     /\ cnt.nverts = 4
                     /\ AspectInRange(cnt, aspect_range)
                     /\ IsUnique(cnt, cell_contours)
         IN FilterContours(img, Tail(contours), area_range, aspect_range,
                           IF keep THEN Append(cell_contours, cnt)
                           ELSE cell_contours)

TryDetection(img, area_range, aspect_range) ==
    LET cell_contours ==
            FilterContours(img, img.contours, area_range, aspect_range, <<>>)
    IN [i \in 1..Len(cell_contours) |-> BoundingRect(cell_contours[i])]

(***************************************************************************)
(* detect_grid: the parameter sweep, the fallback grid, the inference of   *)
(* the dimensions and the assignment of positions.                         *)
(***************************************************************************)
HasHint(grid_rows, grid_cols) == ~IsNone(grid_rows) /\ ~IsNone(grid_cols)

\* area ranges (min, max) in 1/10000 of the image area, in sweep order
AreaRanges(grid_rows, grid_cols) ==
    IF HasHint(grid_rows, grid_cols)
    THEN << <<5, 2000>>, <<10, 1000>>, <<30, 700>>, <<50, 500>> >>
    ELSE << <<50, 500>>, <<30, 700>>, <<10, 1000>> >>

\* the aspect ranges, nearly square first
AspectRangesNarrowFirst == << <<8, 12>>, <<7, 15>>, <<5, 20>>, <<2, 50>> >>

\* aspect ranges (min, max) in 1/10, in sweep order
AspectRanges == << <<2, 50>>, <<5, 20>>, <<7, 15>>, <<8, 12>> >>

\* an acceptance test that takes any non-empty attempt
AcceptsAny(boxes, grid_rows, grid_cols) == boxes # <<>>

\* an acceptance test that wants 12 boxes whatever the hint
AcceptsDozen(boxes, grid_rows, grid_cols) == Len(boxes) >= 12

\* the acceptance test of one attempt's boxes
Accepts(boxes, grid_rows, grid_cols) ==
    /\ boxes # <<>>
    /\ IF Truthy(grid_rows) /\ Truthy(grid_cols)
       THEN 2 * Len(boxes) >= Val(grid_rows) * Val(grid_cols)
       ELSE Len(boxes) >= 12

\* the k-th combination of the nested loops: <<area_range, aspect_range>>
Combination(grid_rows, grid_cols, k) ==
    << AreaRanges(grid_rows, grid_cols)[((k - 1) \div Len(AspectRanges)) + 1],
       AspectRanges[((k - 1) % Len(AspectRanges)) + 1] >>

NumCombinations(grid_rows, grid_cols) ==
    Len(AreaRanges(grid_rows, grid_cols)) * Len(AspectRanges)

RECURSIVE SweepFrom(_, _, _, _, _)
\* the nested loops from combination k on; attempts logs the combinations tried
SweepFrom(img, grid_rows, grid_cols, k, attempts) ==
    IF k > NumCombinations(grid_rows, grid_cols)
    THEN SweepResult(<<>>, attempts)
    ELSE LET comb == Combination(grid_rows, grid_cols, k)
             boxes == TryDetection(img, comb[1], comb[2])
         IN IF Accepts(boxes, grid_rows, grid_cols)
            THEN SweepResult(boxes, Append(attempts, comb))
            ELSE SweepFrom(img, grid_rows, grid_cols, k + 1,
                           Append(attempts, comb))

Sweep(img, grid_rows, grid_cols) == SweepFrom(img, grid_rows, grid_cols, 1, <<>>)

\* range(n): empty for n <= 0
Range(n) == IF n > 0 THEN n ELSE 0

\* a detect_grid that builds no artificial grid
NoFallbackGrid(img, rows, cols) == <<>>

\* the artificial, evenly spaced grid; int(col * cell_width) etc.
FallbackGrid(img, rows, cols) ==
    [i \in 1..(Range(rows) * Range(cols)) |->
        LET row == (i - 1) \div cols
            col == (i - 1) % cols
        IN << (col * img.width) \div cols, (row * img.height) \div rows,
              img.width \div cols, img.height \div rows >>]

\* the boxes left in the order they were found
DetectionOrder(boxes) == boxes

SortByYX(boxes) ==
    Values(SortKeyed([i \in 1..Len(boxes) |->
                        << <<boxes[i][2], boxes[i][1]>>, boxes[i] >>]))

RECURSIVE SeqSum(_)
SeqSum(s) == IF s = <<>> THEN 0 ELSE s[1] + SeqSum(Tail(s))

\* a find_clusters that returns the number of gaps
CountGaps(coords2) ==
    IF Len(coords2) < 2 THEN 0
    ELSE Cardinality({i \in 1..(Len(coords2) - 1) :
                        SortInts(coords2)[i + 1] > SortInts(coords2)[i]})

\* find_clusters on the doubled centre coordinates (2x + w): one plus the
\* number of gaps above 1.2 x the median gap and above 0.8 x the mean gap
FindClusters(coords2) ==
    IF Len(coords2) = 0 THEN 0
    ELSE LET sorted_coords == SortInts(coords2)
             n == Len(sorted_coords) - 1
             diffs == [i \in 1..n |-> sorted_coords[i + 1] - sorted_coords[i]]
             sd == SortInts(diffs)
             \* twice the median of diffs
             median2 == IF n % 2 = 1 THEN 2 * sd[(n + 1) \div 2]
                        ELSE sd[n \div 2] + sd[(n \div 2) + 1]
             gaps == {i \in 1..n : /\ 20 * diffs[i] > 12 * median2
                                   /\ 10 * n * diffs[i] > 8 * SeqSum(diffs)}
         IN IF n = 0 THEN 1 ELSE Cardinality(gaps) + 1

\* np.searchsorted(np.linspace(0, extent, n + 1), centre) - 1, clamped;
\* centre2 is the doubled centre
GridIndex(extent, n, centre2) ==
    LET below == IF n > 0
                 THEN Cardinality({k \in 0..n : 2 * k * extent < centre2 * n})
                 ELSE IF n = 0 THEN (IF 0 < centre2 THEN 1 ELSE 0)
                 ELSE 0
    IN Max2(0, Min2(below - 1, n - 1))

GetGridPosition(img, grid_width, grid_height, box) ==
    << GridIndex(img.height, grid_height, 2 * box[2] + box[4]),
       GridIndex(img.width, grid_width, 2 * box[1] + box[3]) >>

\* positioned_boxes: <<position, box>> of the first box of each position (a
\* box is dropped exactly when an earlier box of the list has its position)
KeepFirstPerPosition(img, grid_width, grid_height, boxes) ==
    LET positioned == [i \in 1..Len(boxes) |->
                          << GetGridPosition(img, grid_width, grid_height, boxes[i]),
                             boxes[i], i >>]
        first == SelectSeq(positioned,
                     LAMBDA e : \A j \in 1..(e[3] - 1) : positioned[j][1] # e[1])
    IN [i \in 1..Len(first) |-> <<first[i][1], first[i][2]>>]

Raise(kind) == GridError(kind, {})

\* detect_grid(image_path, grid_rows, grid_cols) on processor settings
\* save_debug_images; returns the error raised or (grid_width, grid_height,
\* best_boxes), with what the call did on its way
DetectGrid(img, save_debug_images, grid_rows, grid_cols) ==
    IF ~img.decodable THEN Raise("ImageLoadFailure")
    ELSE
    LET sweep == Sweep(img, grid_rows, grid_cols)
        use_fallback == sweep.best_boxes = <<>> /\ HasHint(grid_rows, grid_cols)
        best_boxes == IF use_fallback
                      THEN FallbackGrid(img, Val(grid_rows), Val(grid_cols))
                      ELSE sweep.best_boxes
        sorted_boxes == SortByYX(best_boxes)
        grid_width == IF HasHint(grid_rows, grid_cols) THEN Val(grid_cols)
                      ELSE FindClusters([i \in 1..Len(sorted_boxes) |->
                              2 * sorted_boxes[i][1] + sorted_boxes[i][3]])
        grid_height == IF HasHint(grid_rows, grid_cols) THEN Val(grid_rows)
                       ELSE FindClusters([i \in 1..Len(sorted_boxes) |->
                              2 * sorted_boxes[i][2] + sorted_boxes[i][4]])
        positioned == SortKeyed(KeepFirstPerPosition(img, grid_width,
                                    grid_height, sorted_boxes))
    IN IF use_fallback /\ (Val(grid_rows) = 0 \/ Val(grid_cols) = 0)
       THEN Raise("ZeroDivisionError")
       ELSE IF best_boxes = <<>> THEN Raise("NoCellsDetected")
       \* np.linspace(0, n, num) raises for num < 0
       ELSE IF grid_width + 1 < 0 \/ grid_height + 1 < 0
       THEN GridError("ValueError", IF save_debug_images THEN {"debug"} ELSE {})
       ELSE GridDetected(grid_width, grid_height, Values(positioned),
                         sweep.best_boxes # <<>>, sweep.attempts,
                         IF save_debug_images THEN {"debug"} ELSE {})

(***************************************************************************)
(* Text: str.strip(), str.lower(), " ".join(...), substring test.          *)
(***************************************************************************)
Whitespace == {" ", "\t", "\n"}

RECURSIVE LStrip(_)
LStrip(t) == IF t # <<>> /\ t[1] \in Whitespace THEN LStrip(Tail(t)) ELSE t

RECURSIVE RStrip(_)
RStrip(t) ==
    IF t # <<>> /\ t[Len(t)] \in Whitespace
    THEN RStrip(SubSeq(t, 1, Len(t) - 1)) ELSE t

\* the text as the OCR engine gave it
Unstripped(t) == t

Strip(t) == RStrip(LStrip(t))

UpperCase == << "A", "B", "C", "D", "E", "F", "G", "H", "I", "J", "K", "L", "M",
                "N", "O", "P", "Q", "R", "S", "T", "U", "V", "W", "X", "Y", "Z" >>

LowerCase == << "a", "b", "c", "d", "e", "f", "g", "h", "i", "j", "k", "l", "m",
                "n", "o", "p", "q", "r", "s", "t", "u", "v", "w", "x", "y", "z" >>

LowerChar(c) ==
    IF \E i \in 1..Len(UpperCase) : UpperCase[i] = c
    THEN LowerCase[CHOOSE i \in 1..Len(UpperCase) : UpperCase[i] = c]
    ELSE c

Lower(t) == [i \in 1..Len(t) |-> LowerChar(t[i])]

RECURSIVE Join(_)
\* " ".join(texts)
Join(texts) ==
    IF texts = <<>> THEN <<>>
    ELSE IF Len(texts) = 1 THEN texts[1]
    ELSE texts[1] \o <<" ">> \o Join(Tail(texts))

\* sub in t
Contains(t, sub) ==
    \E i \in 0..(Len(t) - Len(sub)) : SubSeq(t, i + 1, i + Len(sub)) = sub

\* text in ["vocab", "menu"], case kept
IsOperationalExact(text) ==
    text \in { <<"v", "o", "c", "a", "b">>, <<"m", "e", "n", "u">> }

\* text.lower() in ["vocab", "menu"]
IsOperational(text) ==
    Lower(text) \in { <<"v", "o", "c", "a", "b">>, <<"m", "e", "n", "u">> }

(***************************************************************************)
(* detect_cell_content: the clean-up of the text pytesseract gives.        *)
(***************************************************************************)
\* \w of a Python 3 str pattern, for one of the model's characters
IsWordChar(c) ==
    \/ \E i \in 1..Len(UpperCase) : UpperCase[i] = c
    \/ \E i \in 1..Len(LowerCase) : LowerCase[i] = c
    \/ c \in {"0", "1", "2", "3", "4", "5", "6", "7", "8", "9", "_"}

\* re.sub(r"[^\w\s.-]", "", text)
KeepAllowed(t) ==
    SelectSeq(t, LAMBDA c : IsWordChar(c) \/ c \in Whitespace \/ c \in {".", "-"})

RECURSIVE CollapseWhitespace(_)
\* re.sub(r"\s+", " ", text)
CollapseWhitespace(t) ==
    IF t = <<>> THEN <<>>
    ELSE IF t[1] \in Whitespace
    THEN <<" ">> \o CollapseWhitespace(LStrip(t))
    ELSE <<t[1]>> \o CollapseWhitespace(Tail(t))

\* str.isspace()
IsSpace(t) == t # <<>> /\ \A i \in 1..Len(t) : t[i] \in Whitespace

\* image_to_string(...).strip() in single word mode, then, if that gave
\* nothing, in single line mode
ImageToString(raw) ==
    IF Strip(raw[1]) # <<>> THEN Strip(raw[1]) ELSE Strip(raw[2])

\* the text detect_cell_content returns for what pytesseract gives or raises
CellText(raw, raises) ==
    IF raises THEN <<>>
    ELSE LET text == Strip(CollapseWhitespace(KeepAllowed(ImageToString(raw))))
         IN IF Len(text) < 2 \/ IsSpace(text) THEN <<>> ELSE text

(***************************************************************************)
(* merge_nearby_regions(regions, distance_threshold).                      *)
(***************************************************************************)
\* str.isalnum() of one character
IsAlnum(c) ==
    \/ \E i \in 1..Len(UpperCase) : UpperCase[i] = c
    \/ \E i \in 1..Len(LowerCase) : LowerCase[i] = c
    \/ c \in {"0", "1", "2", "3", "4", "5", "6", "7", "8", "9"}

\* regions.sort(key=lambda r: (r["box"][1], r["box"][0])): stable, in place
SortRegions(regions) ==
    Values(SortKeyed([i \in 1..Len(regions) |->
                        << <<regions[i].box[2], regions[i].box[1]>>, regions[i] >>]))

\* min(h1, h2) / max(h1, h2) < 0.7
HeightsDiffer(h1, h2) == 10 * Min2(h1, h2) < 7 * Max2(h1, h2)

\* horizontal_merge of the box (x1, y1, w1, h1) merged so far with other's
HorizontalMerge(box1, box2, distance_threshold) ==
    /\ 3 * Abs(box1[2] - box2[2]) < box1[4]
    /\ 3 * Abs((box1[2] + box1[4]) - (box2[2] + box2[4])) < box1[4]
    /\ Abs(box1[1] + box1[3] - box2[1]) < distance_threshold

\* the bounding box of the two boxes
UnionBox(box1, box2) ==
    LET min_x == Min2(box1[1], box2[1])
        min_y == Min2(box1[2], box2[2])
        max_x == Max2(box1[1] + box1[3], box2[1] + box2[3])
        max_y == Max2(box1[2] + box1[4], box2[2] + box2[4])
    IN <<min_x, min_y, max_x - min_x, max_y - min_y>>

\* the texts joined with nothing between them
MergeTextCompact(text1, text2) == text1 \o text2

\* the texts joined, with a space when both adjoining characters are
\* alphanumeric
MergeText(text1, text2) ==
    IF IsAlnum(text1[Len(text1)]) /\ IsAlnum(text2[1])
    THEN text1 \o <<" ">> \o text2
    ELSE text1 \o text2

\* a merge that keeps the confidence of the first region
AbsorbKeepConfidence(merged_region, other) ==
    Region(UnionBox(merged_region.box, other.box),
           MergeText(merged_region.text, other.text),
           merged_region.confidence)

\* merged_region after other has been merged into it
Absorb(merged_region, other) ==
    Region(UnionBox(merged_region.box, other.box),
           MergeText(merged_region.text, other.text),
           Min2(merged_region.confidence, other.confidence))

RECURSIVE MergeInner(_, _, _, _, _)
\* the inner loop from index j on: <<merged_region, used>>
MergeInner(regions, j, merged_region, used, distance_threshold) ==
    IF j > Len(regions) THEN <<merged_region, used>>
    ELSE IF \/ j \in used
            \/ HeightsDiffer(merged_region.box[4], regions[j].box[4])
            \/ ~HorizontalMerge(merged_region.box, regions[j].box, distance_threshold)
    THEN MergeInner(regions, j + 1, merged_region, used, distance_threshold)
    ELSE MergeInner(regions, j + 1, Absorb(merged_region, regions[j]),
                    used \cup {j}, distance_threshold)

RECURSIVE MergeOuter(_, _, _, _, _)
\* the outer loop from index i on, over the sorted regions
MergeOuter(regions, i, merged, used, distance_threshold) ==
    IF i > Len(regions) THEN merged
    ELSE IF i \in used
    THEN MergeOuter(regions, i + 1, merged, used, distance_threshold)
    ELSE LET inner == MergeInner(regions, i + 1, regions[i], used, distance_threshold)
         IN MergeOuter(regions, i + 1, Append(merged, inner[1]),
                       inner[2] \cup {i}, distance_threshold)

\* the list merge_nearby_regions returns
MergeNearbyRegions(regions, distance_threshold) ==
    IF regions = <<>> THEN <<>>
    ELSE MergeOuter(SortRegions(regions), 1, <<>>, {}, distance_threshold)

\* the text regions of the model: neighbours on a line, a tall one, a far one,
\* one on the next line, a number, its unit and a faint word on a third line
RegionPool ==
    { Region(<<0, 0, 10, 10>>, <<"g", "o">>, 90),
      Region(<<12, 2, 10, 10>>, <<"t", "o">>, 80),
      Region(<<25, 1, 10, 10>>, <<"-", "x">>, 70),
      Region(<<36, 0, 10, 20>>, <<"u", "p", "!">>, 60),
      Region(<<100, 50, 10, 10>>, <<"o", "k">>, 95),
      Region(<<0, 14, 10, 10>>, <<"b">>, 50),
      Region(<<0, 40, 10, 10>>, <<"3">>, 85),
      Region(<<11, 40, 12, 10>>, <<"p", "m">>, 75),
      Region(<<24, 40, 10, 10>>, <<"l", "o">>, 20) }

\* the default distance_threshold and a tighter one
DistanceThresholds == {10, 15}

(***************************************************************************)
(* f"#{int(r):02x}{int(g):02x}{int(b):02x}"                                *)
(***************************************************************************)
HexDigits == << "0", "1", "2", "3", "4", "5", "6", "7",
                "8", "9", "a", "b", "c", "d", "e", "f" >>

RECURSIVE HexOf(_)
HexOf(n) ==
    IF n < 16 THEN << HexDigits[n + 1] >>
    ELSE HexOf(n \div 16) \o << HexDigits[(n % 16) + 1] >>

\* format(n, "x"): no padding
FormatX(n) == HexOf(n)

\* format(n, "02x"): lowercase hexadecimal, zero-padded to a width of 2
Format02x(n) == IF Len(HexOf(n)) < 2 THEN <<"0">> \o HexOf(n) ELSE HexOf(n)

\* int(v) of a non-negative float given in halves
IntOfHalves(v2) == v2 \div 2

\* avg_color is cv2.mean's (b, g, r), here in halves
BodyColor(avg_color) ==
    <<"#">> \o Format02x(IntOfHalves(avg_color[3]))
            \o Format02x(IntOfHalves(avg_color[2]))
            \o Format02x(IntOfHalves(avg_color[1]))

(***************************************************************************)
(* The images of the model.  An image file is what the external            *)
(* capabilities make of it: whether cv2.imread decodes it, its size, the   *)
(* contours cv2.findContours returns, the text fragments the OCR engine    *)
(* finds (each at a point, with its confidence in 1/100; a fragment marked *)
(* fault makes the engine fail on a crop that holds it) and the mean       *)
(* colours of its regions (b, g, r in halves).                             *)
(***************************************************************************)
\* a rectangular contour: contourArea is (w - 1) * (h - 1) of its bounding rectangle
Cnt(x, y, w, h) == Contour(<<x, y, w, h>>, (w - 1) * (h - 1), 4)

Lattice(x0, y0, pitch_x, pitch_y, w, h, nrows, ncols) ==
    [i \in 1..(nrows * ncols) |->
        Cnt(x0 + ((i - 1) % ncols) * pitch_x, y0 + ((i - 1) \div ncols) * pitch_y, w, h)]

Reversed(s) == [i \in 1..Len(s) |-> s[Len(s) + 1 - i]]

Frag(x, y, text, conf) == Fragment(x, y, text, conf, FALSE)

Palette == << <<0, 19, 510>>, <<31, 32, 341>>, <<510, 1, 21>>, <<255, 300, 18>> >>

Images ==
    << \* 1: a clean board of 3 rows x 4 columns, contours listed bottom-up
       ImageFile(<<"h", "o", "m", "e">>, TRUE, 200, 150,
                 Reversed(Lattice(10, 10, 50, 50, 30, 30, 3, 4)),
                 << Frag(20, 20, <<"g", "o">>, 90),
                    Frag(60, 20, <<" ", "h", "i", " ">>, 80),
                    Frag(62, 22, <<"a", "!", "b">>, 50),
                    Frag(100, 50, <<"M", "e", "n", "u">>, 95),
                    Frag(20, 80, <<"a", " ", " ", "b">>, 60),
                    Frag(50, 80, <<"x">>, 20),
                    Frag(110, 90, <<" ", " ">>, 70) >>),
       \* 2: no contour at all
       ImageFile(<<"b", "l", "a", "n", "k">>, TRUE, 200, 150,
                 <<>>,
                 << Frag(30, 30, <<"3">>, 90),
                    Frag(40, 30, <<"p", "m">>, 85),
                    Frag(150, 100, <<"\t", "o", "k", "\n">>, 70),
                    Frag(120, 40, <<"a", "-", "b", ".", "c">>, 30),
                    Frag(60, 120, <<"v", "o", "c", "a", "b">>, 99) >>),
       \* 3: file name containing "24"; 3 rows x 4 columns of cells too small
       \*    for the default area range
       ImageFile(<<"g", "2", "4">>, TRUE, 200, 150,
                 Lattice(10, 10, 50, 50, 11, 11, 3, 4),
                 << Frag(10, 10, <<"Y", "e", "s">>, 90),
                    Frag(190, 140, <<"n", "o">>, 40) >>),
       \* 4: file name containing "60"; a frame found before the four cells
       \*    it encloses
       ImageFile(<<"b", "6", "0">>, TRUE, 200, 150,
                 << Cnt(20, 20, 100, 60) >> \o Lattice(25, 25, 50, 30, 40, 25, 2, 2),
                 << Frag(5, 5, <<"V", "O", "C", "A", "B">>, 99),
                    Frag(15, 60, <<"e", "a", "t">>, 88) >>),
       \* 5: four large cells with nested inner contours, a small box found
       \*    before the cell around it, a non-quadrilateral, a speck; the
       \*    engine fails on the crop that holds the marked fragment
       ImageFile(<<"n", "e", "s", "t">>, TRUE, 200, 150,
                 << Cnt(20, 20, 20, 15) >>
                     \o Lattice(10, 10, 100, 70, 80, 60, 2, 2)
                     \o Lattice(12, 12, 100, 70, 76, 56, 2, 2)
                     \o << Contour(<<95, 60, 31, 31>>, 900, 6),
                           Cnt(0, 0, 3, 3) >>,
                 << Frag(30, 30, <<"u", "p">>, 90),
                     Fragment(150, 100, <<"?">>, 10, TRUE) >>),
       \* 6: not an image
       ImageFile(<<"c", "o", "r", "r", "u", "p", "t">>, FALSE, 0, 0,
                 <<>>,
        <<>>),
       \* 7: two wide boxes; file name containing "60" and "24"
       ImageFile(<<"w", "6", "0", "2", "4">>, TRUE, 200, 150,
                 << Cnt(5, 5, 90, 40), Cnt(100, 5, 90, 40) >>,
                 << Frag(50, 20, <<"o", "n">>, 75),
                    Frag(150, 20, <<"o", "f", "f">>, 31) >>),
       \* 8: an image of 2 x 2 pixels
       ImageFile(<<"t", "i", "n", "y">>, TRUE, 2, 2,
                 <<>>,
                 << Frag(1, 1, <<"z">>, 90) >>),
       \* 9: a single row of 12 cells, each within its twelfth of the width
       ImageFile(<<"s", "t", "r", "i", "p">>, TRUE, 240, 150,
                 Lattice(2, 60, 20, 20, 15, 15, 1, 12),
                 << Frag(30, 70, <<"h", "e", "y">>, 90) >>) >>

ImageIds == 1..Len(Images)

\* Path(image_path).stem
Stem(image_path) == Images[image_path].stem

\* the images detect_text_regions is given: a board and a file that is no image
TextImageIds == {1, 6}

\* a result of reader.readtext passes the filters of detect_text_regions:
\* confidence, size, text left after strip(), not an operational button
KeepsRegion(img, r) ==
    /\ ~(r.confidence < 30)
    /\ ~(r.box[3] * r.box[4] * 10000 < img.width * img.height * 2)
    /\ Strip(r.text) # <<>>
    /\ ~IsOperational(Strip(r.text))

\* detect_text_regions on an image in which the engine finds results (box,
\* text, confidence): the regions returned (without their colours) or the
\* error raised
DetectTextRegions(img, results) ==
    IF ~img.decodable THEN Outcome("error", "ImageLoadFailure")
    ELSE LET kept == SelectSeq(results, LAMBDA r : KeepsRegion(img, r))
             found == [i \in 1..Len(kept) |->
                         Region(kept[i].box, Strip(kept[i].text), kept[i].confidence)]
         IN Outcome("regions", SortRegions(MergeNearbyRegions(found, 10)))

(***************************************************************************)
(* The file system, as far as the image in use goes: which of              *)
(* image_path + suffix have been written ("" is the input file itself)     *)
(* and the text that was drawn onto the input file, if it was overwritten. *)
(***************************************************************************)
Pristine == DiskState({}, <<>>)

DebugPath(image_path) == <<image_path, ".debug.png">>

\* a debug path that is the input file itself
OverInputPath(image_path) == <<image_path, "">>

TextDebugPath(image_path) == <<image_path, ".text_debug.png">>

\* cv2.imwrite(path, image): stamps are the texts drawn on the image written
ImWrite(d, image_path, path, stamps) ==
    DiskState(d.written \cup {path[2]},
              IF path = <<image_path, "">> THEN stamps ELSE d.stamped)

\* cv2.imread(image_path)
ImRead(d, image_path) ==
    [Images[image_path] EXCEPT !.texts = @ \o d.stamped]

(***************************************************************************)
(* The OCR engine and cv2.mean on a crop img[sy : sy + sh, sx : sx + sw].  *)
(***************************************************************************)
CropEmpty(img, sx, sy, sw, sh) ==
    sw <= 0 \/ sh <= 0 \/ sx >= img.width \/ sy >= img.height

InCrop(f, sx, sy, sw, sh) ==
    sx <= f.x /\ f.x < sx + sw /\ sy <= f.y /\ f.y < sy + sh

\* reader.readtext(cell_img, ...): the error raised or the (text, conf) results
ReadText(img, sx, sy, sw, sh) ==
    LET found == SelectSeq(img.texts, LAMBDA f : InCrop(f, sx, sy, sw, sh))
    IN IF CropEmpty(img, sx, sy, sw, sh) \/ \E i \in 1..Len(found) : found[i].fault
       THEN OcrResult(FALSE, <<>>)
       ELSE OcrResult(TRUE, found)

\* cv2.mean(cell_img)[:3]
MeanColor(img, sx, sy) == Palette[((sx + sy) % Len(Palette)) + 1]

(***************************************************************************)
(* Tree structure (aac_processors/tree_structure.py).                      *)
(***************************************************************************)
\* AACTree(): pages is the dict in insertion order, root_id None
EmptyTree == Tree(<<>>, <<>>)

\* AACTree.add_page: self.pages[page.id] = page, root_id set when unset
AddPage(t, new_page) ==
    Tree(IF \E i \in 1..Len(t.pages) : t.pages[i].id = new_page.id
         THEN [i \in 1..Len(t.pages) |->
                  IF t.pages[i].id = new_page.id THEN new_page ELSE t.pages[i]]
         ELSE Append(t.pages, new_page),
         IF t.root_id = <<>> THEN new_page.id ELSE t.root_id)

\* AACPage(id=f"screenshot_{stem}", name=f"Detected Page - {stem}", grid_size=...)
NewPage(image_path, actual_rows, actual_cols) ==
    Page(<<"screenshot_">> \o Stem(image_path),
         <<"Detected Page - ">> \o Stem(image_path),
         <<actual_rows, actual_cols>>, <<>>)

\* a button placed at (col, row): what the bounds on positions must exclude
NewButtonTransposed(pg, cell_texts, row, col, avg_color) ==
    Button(<<"btn_", Len(pg.buttons)>>, Join(cell_texts), "speak", <<col, row>>,
           Style(BodyColor(avg_color)))

\* a button numbered from one
NewButtonFromOne(pg, cell_texts, row, col, avg_color) ==
    Button(<<"btn_", Len(pg.buttons) + 1>>, Join(cell_texts), "speak", <<row, col>>,
           Style(BodyColor(avg_color)))

\* AACButton(id=f"btn_{len(page.buttons)}", label=" ".join(cell_texts), ...)
NewButton(pg, cell_texts, row, col, avg_color) ==
    Button(<<"btn_", Len(pg.buttons)>>, Join(cell_texts), "speak", <<row, col>>,
           Style(BodyColor(avg_color)))

\* the detected dimension, whatever the caller gave
AlwaysDetected(hint, detected) == detected

(***************************************************************************)
(* create_page_from_screenshot: the geometry.                              *)
(***************************************************************************)
\* grid_rows if grid_rows is not None else detected_rows
Actual(hint, detected) == IF ~IsNone(hint) THEN Val(hint) ELSE detected

\* min(y_coords) if not ignore_rows else sorted(y_coords)[ignore_rows];
\* <<>> stands for the IndexError
GridOriginY(grid_boxes, ignore_rows) ==
    LET y_coords == [i \in 1..Len(grid_boxes) |-> grid_boxes[i][2]]
    IN IF ignore_rows = 0 THEN <<SeqMin(y_coords)>>
       ELSE IF ignore_rows + 1 > Len(y_coords) THEN <<>>
       ELSE <<SortInts(y_coords)[ignore_rows + 1]>>

\* a trimming that drops the smallest sizes only
TrimSmallest(sorted_sizes) ==
    SubSeq(sorted_sizes, (Len(sorted_sizes) \div 10) + 1, Len(sorted_sizes))

\* widths[trim:-trim] with trim = len(widths) // 10, when trim > 0
TrimOutliers(sorted_sizes) ==
    LET trim == Len(sorted_sizes) \div 10
    IN IF trim > 0 THEN SubSeq(sorted_sizes, trim + 1, Len(sorted_sizes) - trim)
       ELSE sorted_sizes

\* int(np.median(sizes)) of a sorted, non-empty list of non-negative sizes
IntMedian(sizes) ==
    LET n == Len(sizes)
    IN IF n % 2 = 1 THEN sizes[(n + 1) \div 2]
       ELSE (sizes[n \div 2] + sizes[(n \div 2) + 1]) \div 2

ModeSize(grid_boxes, k) ==
    IntMedian(TrimOutliers(SortInts([i \in 1..Len(grid_boxes) |-> grid_boxes[i][k]])))

\* the search area of cell (row, col): <<search_x, search_y, search_w, search_h>>
SearchArea(img, f, row, col) ==
    LET x == f.grid_origin_x + col * f.mode_width
        y == f.grid_origin_y + row * f.mode_height
        margin == 5
        search_x == Max2(0, x - margin)
        search_y == Max2(0, y - margin)
    IN << search_x, search_y,
          Min2(f.mode_width + 2 * margin, img.width - search_x),
          Min2(f.mode_height + 2 * margin, img.height - search_y) >>

RECURSIVE CellTexts(_)
\* the texts kept of one cell's OCR results
CellTexts(results) ==
    IF results = <<>> THEN <<>>
    ELSE LET text == Strip(Head(results).text)
             rest == CellTexts(Tail(results))
         IN IF Head(results).conf < 30 THEN rest
            ELSE IF text # <<>> /\ ~IsOperational(text) THEN <<text>> \o rest
            ELSE rest

\* load_into_tree's grid dimensions from the file name
FilenameHint(file_path) ==
    IF Contains(Stem(file_path), <<"2", "4">>) THEN <<Some(6), Some(4)>>
    ELSE IF Contains(Stem(file_path), <<"6", "0">>) THEN <<Some(6), Some(10)>>
    ELSE <<None, None>>

(***************************************************************************)
(* State.                                                                  *)
(***************************************************************************)
VARIABLES
    save_debug_images,  \* per processor: self.save_debug_images
    tree,               \* per processor: self.tree
    disk,               \* the files of the image in use
    call,               \* the call in progress or last completed
    pc,                 \* idle, Init, GeometryResolved, PerCellExtraction,
                        \* Assembled, done, raised
    frame,              \* the locals of create_page_from_screenshot
    page,               \* the page under construction
    result,             \* what the call returned or raised
    prev,               \* result of the call this one repeats, if it repeats one
    regions,            \* the list passed to merge_nearby_regions
    distance_threshold, \* its distance_threshold
    merged,             \* the list the last call of merge_nearby_regions returned
    first_merged,       \* the list its first call returned
    passes,             \* the calls of merge_nearby_regions made
    text_regions,       \* what detect_text_regions returned or raised
    raw_texts,          \* what pytesseract gives for the cell: <<psm 8, psm 7>>
    ocr_raises,         \* whether pytesseract raises instead
    content,            \* what detect_cell_content returned
    boxes_in,           \* a box list returned by detect_grid
    trimmed,            \* its sorted widths and heights after the trimming
    mode_size           \* <<mode_width, mode_height>> computed from it

procVars == <<save_debug_images, tree, disk, call, pc, frame, page, result, prev>>

mergeVars == <<regions, distance_threshold, merged, first_merged, passes,
               text_regions>>

cellVars == <<raw_texts, ocr_raises, content>>

sizeVars == <<boxes_in, trimmed, mode_size>>

vars == <<procVars, mergeVars, cellVars, sizeVars>>

Procs == {1, 2}

HintValues == {None} \cup {Some(n) : n \in -1..MaxHint}

NoCall == Request("none", 1, 1, None, None, 0)

NoPage == Page(<<>>, <<>>, <<0, 0>>, <<>>)

NoResult == Outcome("none", <<>>)

Raised(e) == Outcome("error", e)

\* no list of regions at hand
NoRegions ==
    /\ regions = <<>>
    /\ distance_threshold = 15
    /\ merged = <<>>
    /\ first_merged = <<>>
    /\ passes = 0
    /\ text_regions = NoResult

ProcessorInit ==
    /\ save_debug_images = [p \in Procs |-> p = 2]
    /\ tree = [p \in Procs |-> EmptyTree]
    /\ disk = Pristine
    /\ call = NoCall
    /\ pc = "idle"
    /\ frame = NoFrame
    /\ page = NoPage
    /\ result = NoResult
    /\ prev = NoResult

\* no cell at hand
NoCell ==
    /\ raw_texts = << <<>>, <<>> >>
    /\ ocr_raises = FALSE
    /\ content = NoResult

\* no box list at hand
NoSizes ==
    /\ boxes_in = <<>>
    /\ trimmed = <<>>
    /\ mode_size = <<>>

Init == ProcessorInit /\ NoRegions /\ NoCell /\ NoSizes

SameRequest(a, b) ==
    /\ a.op = b.op
    /\ a.image_path = b.image_path
    /\ a.grid_rows = b.grid_rows
    /\ a.grid_cols = b.grid_cols
    /\ a.ignore_rows = b.ignore_rows

\* a caller issues a call when none is running: a first one, or, once the
\* last one has returned or raised, the same request again on any processor
Begin(request, repeat) ==
    /\ IF repeat
       THEN pc \in {"done", "raised"} /\ SameRequest(request, call)
       ELSE pc = "idle"
    /\ call' = request
    /\ pc' = "Init"
    /\ frame' = NoFrame
    /\ page' = NoPage
    /\ result' = NoResult
    /\ prev' = IF repeat THEN result ELSE NoResult
    /\ UNCHANGED <<mergeVars, cellVars, sizeVars, save_debug_images, tree, disk>>

\* the caller drops what the last call gave it and turns to other files
Discard ==
    /\ pc \in {"done", "raised"}
    /\ pc' = "idle"
    /\ call' = NoCall
    /\ frame' = NoFrame
    /\ page' = NoPage
    /\ result' = NoResult
    /\ prev' = NoResult
    /\ disk' = Pristine
    /\ UNCHANGED <<mergeVars, cellVars, sizeVars, save_debug_images, tree>>

CallCreatePage(p, path, rows, cols, ignore, repeat) ==
    Begin(Request("create_page_from_screenshot", p, path, rows, cols, ignore), repeat)

\* load_into_tree(file_path): the file name may give the dimensions
CallLoadIntoTree(p, path, repeat) ==
    Begin(Request("load_into_tree", p, path, FilenameHint(path)[1],
                  FilenameHint(path)[2], 0), repeat)

\* extract_texts(file_path)
CallExtractTexts(p, path, repeat) ==
    Begin(Request("extract_texts", p, path, None, None, 0), repeat)

CallDetectGrid(p, path, rows, cols, repeat) ==
    Begin(Request("detect_grid", p, path, rows, cols, 0), repeat)

\* extract_texts(file_path) on the file a first load_into_tree call was just
\* given; prev keeps what load_into_tree returned or raised
CallExtractTextsOfLoaded(p) ==
    /\ pc \in {"done", "raised"}
    /\ call.op = "load_into_tree"
    /\ prev = NoResult
    /\ call' = Request("extract_texts", p, call.image_path, None, None, 0)
    /\ pc' = "Init"
    /\ frame' = NoFrame
    /\ page' = NoPage
    /\ result' = NoResult
    /\ prev' = result
    /\ UNCHANGED <<mergeVars, cellVars, sizeVars, save_debug_images, tree, disk>>

(***************************************************************************)
(* The steps of a call.                                                    *)
(***************************************************************************)
IsPageOp(op) == op \in {"create_page_from_screenshot", "load_into_tree", "extract_texts"}

\* a debug image of detect_grid written whatever the flag
AlwaysWriteDebug(d, image_path, dg) ==
    ImWrite(d, image_path, DebugPath(image_path), <<>>)

\* the debug image of detect_grid, written when self.save_debug_images
AfterDetectGrid(d, image_path, dg) ==
    IF dg.written # {} THEN ImWrite(d, image_path, DebugPath(image_path), <<>>)
    ELSE d

\* create_page_from_screenshot up to the cell loop: the image is read, the
\* grid detected, the dimensions, the origin and the cell size computed, the
\* page created
ResolveGeometry ==
    /\ pc = "Init"
    /\ IsPageOp(call.op)
    /\ \E img \in {ImRead(disk, call.image_path)} :
       \E dg \in {DetectGrid(img, save_debug_images[call.proc],
                             call.grid_rows, call.grid_cols)} :
       LET actual_rows == Actual(call.grid_rows, dg.grid_height)
           actual_cols == Actual(call.grid_cols, dg.grid_width)
           origin_y == GridOriginY(dg.best_boxes, call.ignore_rows)
           fail(kind) == /\ pc' = "raised"
                         /\ result' = Raised(kind)
                         /\ UNCHANGED <<frame, page>>
       IN IF ~img.decodable
          THEN fail("ImageLoadFailure") /\ UNCHANGED disk
          ELSE /\ disk' = AfterDetectGrid(disk, call.image_path, dg)
               /\ IF ~dg.ok THEN fail(dg.error)
                  ELSE IF actual_rows < 1 \/ actual_cols < 1
                  THEN fail("InvalidGridDimensions")
                  ELSE IF origin_y = <<>> THEN fail("IndexError")
                  ELSE /\ pc' = "GeometryResolved"
                       /\ frame' = [NoFrame EXCEPT
                             !.actual_rows = actual_rows,
                             !.actual_cols = actual_cols,
                             !.detected_rows = dg.grid_height,
                             !.detected_cols = dg.grid_width,
                             !.grid_boxes = dg.best_boxes,
                             !.grid_origin_x =
                                 SeqMin([i \in 1..Len(dg.best_boxes) |-> dg.best_boxes[i][1]]),
                             !.grid_origin_y = origin_y[1],
                             !.mode_width = ModeSize(dg.best_boxes, 3),
                             !.mode_height = ModeSize(dg.best_boxes, 4),
                             !.img_texts = img.texts]
                       /\ page' = NewPage(call.image_path, actual_rows, actual_cols)
                       /\ UNCHANGED result
    /\ UNCHANGED <<mergeVars, cellVars, sizeVars, save_debug_images, tree, call, prev>>

\* one iteration of the loops over row and col
ExtractCell ==
    /\ pc \in {"GeometryResolved", "PerCellExtraction"}
    /\ frame.row < frame.actual_rows
    /\ \E img \in {[Images[call.image_path] EXCEPT !.texts = frame.img_texts]} :
       \E area \in {SearchArea(img, frame, frame.row, frame.col)} :
       \E ocr \in {ReadText(img, area[1], area[2], area[3], area[4])} :
       \E cell_texts \in {CellTexts(ocr.results)} :
       LET last_col == frame.col + 1 = frame.actual_cols
           visited == [frame EXCEPT
                          !.ocr_calls = Append(@, <<frame.row, frame.col>>)]
       IN IF ~ocr.ok
          THEN /\ pc' = "raised"
               /\ result' = Raised("OCRError")
               /\ frame' = visited
               /\ UNCHANGED page
          ELSE /\ pc' = "PerCellExtraction"
               /\ page' = IF cell_texts # <<>>
                          THEN [page EXCEPT !.buttons =
                                   Append(@, NewButton(page, cell_texts, frame.row,
                                              frame.col, MeanColor(img, area[1], area[2])))]
                          ELSE page
               /\ frame' = [visited EXCEPT
                     !.row = IF last_col THEN @ + 1 ELSE @,
                     !.col = IF last_col THEN 0 ELSE @ + 1,
                     !.debug_texts =
                         IF cell_texts # <<>>
                         THEN Append(@, Frag(area[1] + 5, area[2] + area[4] - 5,
                                             Join(cell_texts), 99))
                         ELSE @]
               /\ UNCHANGED result
    /\ UNCHANGED <<mergeVars, cellVars, sizeVars, save_debug_images, tree, disk, call, prev>>

\* after the loops: the text debug image is written when enabled
Assemble ==
    /\ pc \in {"GeometryResolved", "PerCellExtraction"}
    /\ frame.row >= frame.actual_rows
    /\ pc' = "Assembled"
    /\ disk' = IF save_debug_images[call.proc]
               THEN ImWrite(disk, call.image_path, TextDebugPath(call.image_path),
                            frame.debug_texts)
               ELSE disk
    /\ UNCHANGED <<mergeVars, cellVars, sizeVars, save_debug_images, tree, call, frame, page, result, prev>>

\* load_into_tree: tree = AACTree()
NewTree(self_tree) == EmptyTree

\* a load_into_tree that adds the page to self.tree
LoadedIntoSelf(self_tree, pg) == AddPage(self_tree, pg)

\* load_into_tree never assigns or changes self.tree
SelfTreeAfterLoad(self_tree, pg) == self_tree

\* the labels, last button first
LabelsLastFirst(pg) ==
    [i \in 1..Len(pg.buttons) |-> pg.buttons[Len(pg.buttons) + 1 - i].label]

\* [btn.label for btn in page.buttons if btn.label]
Labels(pg) ==
    LET kept == SelectSeq(pg.buttons, LAMBDA b : b.label # <<>>)
    IN [i \in 1..Len(kept) |-> kept[i].label]

\* create_page_from_screenshot returns; its caller finishes
Return ==
    /\ pc = "Assembled"
    /\ pc' = "done"
    /\ result' =
         IF call.op = "load_into_tree"
         THEN Outcome("tree", AddPage(NewTree(tree[call.proc]), page))
         ELSE IF call.op = "extract_texts"
         THEN Outcome("texts", Labels(page))
         ELSE Outcome("page", page)
    /\ tree' = IF call.op = "load_into_tree"
               THEN [tree EXCEPT ![call.proc] = SelfTreeAfterLoad(@, page)]
               ELSE tree
    /\ UNCHANGED <<mergeVars, cellVars, sizeVars, save_debug_images, disk, call, frame, page, prev>>

\* a direct call of detect_grid
RunDetectGrid ==
    /\ pc = "Init"
    /\ call.op = "detect_grid"
    /\ \E img \in {ImRead(disk, call.image_path)} :
       \E dg \in {DetectGrid(img, save_debug_images[call.proc],
                             call.grid_rows, call.grid_cols)} :
          /\ disk' = AfterDetectGrid(disk, call.image_path, dg)
          /\ pc' = IF dg.ok THEN "done" ELSE "raised"
          /\ result' = IF dg.ok THEN Outcome("grid", dg) ELSE Raised(dg.error)
    /\ UNCHANGED <<mergeVars, cellVars, sizeVars, save_debug_images, tree, call, frame, page, prev>>

\* a call begins only where no call is under way
BetweenCalls == pc \in {"idle", "done", "raised"}

Next ==
    \/ /\ BetweenCalls
       /\ \E p \in Procs, i \in ImageIds, hr \in HintValues, hc \in HintValues,
             k \in 0..MaxIgnoreRows, repeat \in BOOLEAN :
             CallCreatePage(p, i, hr, hc, k, repeat)
    \/ /\ BetweenCalls
       /\ \E p \in Procs, i \in ImageIds, repeat \in BOOLEAN :
             CallLoadIntoTree(p, i, repeat)
    \/ /\ BetweenCalls
       /\ \E p \in Procs, i \in ImageIds, repeat \in BOOLEAN :
             CallExtractTexts(p, i, repeat)
    \/ /\ BetweenCalls
       /\ \E p \in Procs, i \in ImageIds, hr \in HintValues, hc \in HintValues,
             repeat \in BOOLEAN :
             CallDetectGrid(p, i, hr, hc, repeat)
    \/ \E p \in Procs : CallExtractTextsOfLoaded(p)
    \/ ResolveGeometry
    \/ ExtractCell
    \/ Assemble
    \/ Return
    \/ RunDetectGrid
    \/ Discard

Spec == Init /\ [][Next]_vars

(***************************************************************************)
(* merge_nearby_regions applied to a list of regions, and again to the     *)
(* list it returned.                                                       *)
(***************************************************************************)
RegionLists ==
    UNION {[1..n -> RegionPool] : n \in 0..MaxRegions}

InitMerge ==
    /\ ProcessorInit
    /\ NoCell
    /\ NoSizes
    /\ regions \in RegionLists
    /\ distance_threshold \in DistanceThresholds
    /\ merged = <<>>
    /\ first_merged = <<>>
    /\ passes = 0
    /\ text_regions = NoResult

\* merge_nearby_regions(regions, distance_threshold)
CallMerge ==
    /\ passes = 0
    /\ regions' = SortRegions(regions)
    /\ merged' = MergeNearbyRegions(regions, distance_threshold)
    /\ first_merged' = merged'
    /\ passes' = 1
    /\ UNCHANGED <<procVars, cellVars, sizeVars, distance_threshold, text_regions>>

\* merge_nearby_regions(merged, distance_threshold) on the list just returned
CallMergeAgain ==
    /\ passes = 1
    /\ regions' = SortRegions(merged)
    /\ merged' = MergeNearbyRegions(merged, distance_threshold)
    /\ passes' = 2
    /\ UNCHANGED <<procVars, cellVars, sizeVars, distance_threshold, first_merged, text_regions>>

\* detect_text_regions(image_path), the OCR engine finding regions in the image
CallDetectTextRegions(image_path) ==
    /\ passes = 0
    /\ text_regions = NoResult
    /\ text_regions' = DetectTextRegions(Images[image_path], regions)
    /\ UNCHANGED <<procVars, cellVars, sizeVars, regions, distance_threshold, merged, first_merged,
                   passes>>

NextMerge ==
    \/ CallMerge
    \/ CallMergeAgain
    \/ \E image_path \in TextImageIds : CallDetectTextRegions(image_path)

SpecMerge == InitMerge /\ [][NextMerge]_vars

(***************************************************************************)
(* detect_cell_content applied to a cell of the board, pytesseract giving  *)
(* any text of the model's characters.                                     *)
(***************************************************************************)
\* a letter of each case, a digit, whitespace, the period, the hyphen, the
\* underscore and a character outside all classes
TextChars == {"a", "Z", "7", " ", "\t", ".", "-", "_", "!"}

RawTexts == UNION {[1..n -> TextChars] : n \in 0..MaxText}

\* what single line mode gives when it is tried
SecondTexts == { <<>>, <<"o", "k">>, <<" ", "_", "\t">> }

\* the cells detect_cell_content is given: boxes detect_grid found on image 1
CellBoxes == { <<10, 10, 30, 30>>, <<60, 110, 30, 30>> }

InitCell ==
    /\ ProcessorInit
    /\ NoRegions
    /\ NoSizes
    /\ raw_texts \in RawTexts \X SecondTexts
    /\ ocr_raises \in BOOLEAN
    /\ content = NoResult

\* detect_cell_content(img, box); int(avg_color[i]) of cv2.mean's b, g, r
CallDetectCellContent(box) ==
    /\ content = NoResult
    /\ content' = Outcome("content",
                      Content(CellText(raw_texts, ocr_raises),
                              [i \in 1..3 |->
                                  IntOfHalves(MeanColor(Images[1], box[1], box[2])[i])]))
    /\ UNCHANGED <<procVars, mergeVars, sizeVars, raw_texts, ocr_raises>>

NextCell == \E box \in CellBoxes : CallDetectCellContent(box)

SpecCell == InitCell /\ [][NextCell]_vars

(***************************************************************************)
(* The cell size create_page_from_screenshot computes from a box list.     *)
(***************************************************************************)
\* the widths of the model's boxes; the height of a box is 50 less its width
SizeValues == <<40, 20, 10>>

\* the box lists of n boxes: wide boxes first, narrow ones last
BoxListsOf(n) ==
    { [i \in 1..n |-> LET w == IF i <= a THEN SizeValues[1]
                                ELSE IF i <= b THEN SizeValues[2]
                                ELSE SizeValues[3]
                       IN <<10 * i, 10, w, 50 - w>>] : a \in 0..n, b \in 0..n }

InitSizes ==
    /\ ProcessorInit
    /\ NoRegions
    /\ NoCell
    /\ boxes_in \in UNION {BoxListsOf(n) : n \in 1..MaxBoxes}
    /\ trimmed = <<>>
    /\ mode_size = <<>>

\* lines 531-544 of create_page_from_screenshot on grid_boxes
ComputeModeSize ==
    /\ mode_size = <<>>
    /\ trimmed' = [k \in 1..2 |->
                      TrimOutliers(SortInts([i \in 1..Len(boxes_in) |->
                                                boxes_in[i][k + 2]]))]
    /\ mode_size' = << ModeSize(boxes_in, 3), ModeSize(boxes_in, 4) >>
    /\ UNCHANGED <<procVars, mergeVars, cellVars, boxes_in>>

NextSizes == ComputeModeSize

SpecSizes == InitSizes /\ [][NextSizes]_vars

(***************************************************************************)
(* Properties of the pages create_page_from_screenshot returns.            *)
(***************************************************************************)
\* the call that has just returned is create_page_from_screenshot itself
ReturnedPage == pc = "done" /\ result.kind = "page"

\* C1: on every page returned by create_page_from_screenshot each button's
\* position (row, col) has 0 <= row < grid_size[0] and 0 <= col < grid_size[1],
\* and no two buttons of the page share a position
C1_PositionsWithinGrid ==
    ReturnedPage =>
        LET pg == result.value
            n == Len(pg.buttons)
        IN /\ \A i \in 1..n :
                 /\ 0 <= pg.buttons[i].position[1]
                 /\ pg.buttons[i].position[1] < pg.grid_size[1]
                 /\ 0 <= pg.buttons[i].position[2]
                 /\ pg.buttons[i].position[2] < pg.grid_size[2]
           /\ \A i \in 1..n : \A j \in 1..n :
                 i # j => pg.buttons[i].position # pg.buttons[j].position

\* a returned page with buttons in different rows and in different columns,
\* one of them in the last column of a grid that is not square
C1_Witness ==
    /\ ReturnedPage
    /\ result.value.grid_size[1] # result.value.grid_size[2]
    /\ \E i, j \in 1..Len(result.value.buttons) :
          /\ result.value.buttons[i].position[1] # result.value.buttons[j].position[1]
          /\ result.value.buttons[i].position[2] # result.value.buttons[j].position[2]
          /\ result.value.buttons[j].position[2] + 1 = result.value.grid_size[2]

(***************************************************************************)
(* Properties of detect_grid, called directly or by                        *)
(* create_page_from_screenshot.                                            *)
(***************************************************************************)
\* the boxes of the artificial grid for the hint of the current call
FallbackBoxes ==
    LET g == FallbackGrid(Images[call.image_path], Val(call.grid_rows),
                          Val(call.grid_cols))
    IN {g[i] : i \in 1..Len(g)}

\* detect_grid has returned to its caller: an accepted detection, or else
\* boxes of the artificial grid
ReturnsDetectionOrFallback ==
    (pc = "done" /\ call.op = "detect_grid") =>
        /\ result.value.best_boxes # <<>>
        /\ \/ result.value.accepted
           \/ \A i \in 1..Len(result.value.best_boxes) :
                 result.value.best_boxes[i] \in FallbackBoxes

NoCombinationSucceeds(img) ==
    \A k \in 1..NumCombinations(None, None) :
        Len(TryDetection(img, Combination(None, None, k)[1],
                         Combination(None, None, k)[2])) < 12

\* C3: without a hint, detect_grid on a decodable image raises "No cells
\* detected" whenever no combination of the sweep succeeds, and then returns
\* no box list
C3_NoHintNoSuccessRaises ==
    (/\ pc \in {"GeometryResolved", "done", "raised"}
     /\ ~HasHint(call.grid_rows, call.grid_cols)
     /\ Images[call.image_path].decodable
     /\ NoCombinationSucceeds(Images[call.image_path])) =>
        /\ pc = "raised"
        /\ result = Raised("NoCellsDetected")

\* detect_grid raised "No cells detected" on an image that has contours, some
\* of them passing the filters, and on a call that gave one dimension only
C3_Witness ==
    /\ pc = "raised" /\ call.op = "detect_grid"
    /\ result = Raised("NoCellsDetected")
    /\ IsNone(call.grid_rows) /\ ~IsNone(call.grid_cols)
    /\ \E k \in 1..NumCombinations(None, None) :
          TryDetection(Images[call.image_path], Combination(None, None, k)[1],
                       Combination(None, None, k)[2]) # <<>>

(***************************************************************************)
(* Labels.                                                                 *)
(***************************************************************************)
Digits == {"0", "1", "2", "3", "4", "5", "6", "7", "8", "9"}

\* letters, digits, space, hyphen and period
PlainChars ==
    {UpperCase[i] : i \in 1..Len(UpperCase)} \cup
    {LowerCase[i] : i \in 1..Len(LowerCase)} \cup Digits \cup {" ", "-", "."}

NoOuterWhitespace(label) ==
    label # <<>> => label[1] \notin Whitespace /\ label[Len(label)] \notin Whitespace

\* C4 as stated: every non-empty label of a button on a returned page contains
\* only letters, digits, spaces, hyphens and periods, has no leading or
\* trailing whitespace and no internal double space
C4_LabelsPlain ==
    ReturnedPage =>
        \A i \in 1..Len(result.value.buttons) :
            LET label == result.value.buttons[i].label
            IN /\ \A j \in 1..Len(label) : label[j] \in PlainChars
               /\ NoOuterWhitespace(label)
               /\ ~Contains(label, <<" ", " ">>)

\* C4, amended: every label of a button on a returned page is non-empty and
\* has no leading or trailing whitespace (the OCR text is stripped, nothing
\* else is removed from it)
C4_LabelsStripped ==
    ReturnedPage =>
        \A i \in 1..Len(result.value.buttons) :
            /\ result.value.buttons[i].label # <<>>
            /\ NoOuterWhitespace(result.value.buttons[i].label)

\* a returned page with a label joined from a text that came with outer
\* whitespace and a text with a character outside the plain ones, and a label
\* that keeps a double space
C4_Witness ==
    /\ ReturnedPage
    /\ \E i \in 1..Len(result.value.buttons) :
          result.value.buttons[i].label = <<"h", "i", " ", "a", "!", "b">>
    /\ \E i \in 1..Len(result.value.buttons) :
          Contains(result.value.buttons[i].label, <<" ", " ">>)

(***************************************************************************)
(* merge_nearby_regions.                                                   *)
(***************************************************************************)
\* C5: merging is idempotent: merge_nearby_regions applied, with the same
\* distance threshold, to the list it has just returned yields the same list
C5_MergeIdempotent ==
    passes = 2 => merged = first_merged

(***************************************************************************)
(* Failures, repetition, colours and dimensions of                         *)
(* create_page_from_screenshot.                                            *)
(***************************************************************************)
\* C6: in create_page_from_screenshot a failure at one cell (its OCR failing
\* or finding no text) never aborts the call: the call raises only before the
\* cell loop, on image-load or grid-detection failure, and once the loop has
\* been entered the remaining cells are processed and the page is returned
C6_CellFailureNeverAborts ==
    (IsPageOp(call.op) /\ pc = "raised") => frame.ocr_calls = <<>>

\* the buttons' labels and positions, in page order
LabelsAndPositions(pg) ==
    [i \in 1..Len(pg.buttons) |-> <<pg.buttons[i].label, pg.buttons[i].position>>]

\* C7: two calls of create_page_from_screenshot with the same image and
\* parameters, on the same or on different processors, return pages with the
\* same button count, the same labels and the same positions
C7_RepeatedCallSamePage ==
    (/\ call.op = "create_page_from_screenshot"
     /\ pc \in {"done", "raised"}
     /\ prev.kind = "page") =>
        /\ result.kind = "page"
        /\ Len(result.value.buttons) = Len(prev.value.buttons)
        /\ LabelsAndPositions(result.value) = LabelsAndPositions(prev.value)

\* a page with several buttons returned a second time, by a processor that
\* writes no debug images after one that wrote them
C7_Witness ==
    /\ ReturnedPage
    /\ prev.kind = "page"
    /\ ~save_debug_images[call.proc]
    /\ TextDebugPath(call.image_path)[2] \in disk.written
    /\ Len(result.value.buttons) >= 2

\* C8: every button of a returned page has a style.body_color that is "#"
\* followed by exactly six lowercase hexadecimal digits
C8_BodyColorFormat ==
    ReturnedPage =>
        \A i \in 1..Len(result.value.buttons) :
            LET color == result.value.buttons[i].style.body_color
            IN /\ Len(color) = 7
               /\ color[1] = "#"
               /\ \A j \in 2..Len(color) :
                     \E d \in 1..Len(HexDigits) : HexDigits[d] = color[j]

\* a returned page with a button whose red component is below 16 and one
\* whose blue component is
C8_Witness ==
    /\ ReturnedPage
    /\ \E i \in 1..Len(result.value.buttons) :
          LET color == result.value.buttons[i].style.body_color
          IN color[2] = "0" /\ color[3] # "0"
    /\ \E i \in 1..Len(result.value.buttons) :
          LET color == result.value.buttons[i].style.body_color
          IN color[6] = "0" /\ color[7] # "0"

\* C9 as stated: the returned page has grid_size = (grid_rows, grid_cols) when
\* the caller supplies both, and otherwise the (rows, cols) inferred by
\* detect_grid; both components are >= 1
C9_GridSizeSuppliedOrInferred ==
    ReturnedPage =>
        /\ result.value.grid_size =
              IF HasHint(call.grid_rows, call.grid_cols)
              THEN <<Val(call.grid_rows), Val(call.grid_cols)>>
              ELSE <<frame.detected_rows, frame.detected_cols>>
        /\ result.value.grid_size[1] >= 1
        /\ result.value.grid_size[2] >= 1

\* C9, amended: each component of the returned page's grid_size is the
\* caller's value when the caller supplies that component, and otherwise the
\* one inferred by detect_grid; both components are >= 1
C9_GridSizePerComponent ==
    ReturnedPage =>
        /\ result.value.grid_size[1] =
              IF IsNone(call.grid_rows) THEN frame.detected_rows
              ELSE Val(call.grid_rows)
        /\ result.value.grid_size[2] =
              IF IsNone(call.grid_cols) THEN frame.detected_cols
              ELSE Val(call.grid_cols)
        /\ result.value.grid_size[1] >= 1
        /\ result.value.grid_size[2] >= 1

\* a page returned for a call that gave grid_rows only, different from the
\* rows detect_grid inferred
C9_Witness ==
    /\ ReturnedPage
    /\ ~IsNone(call.grid_rows) /\ IsNone(call.grid_cols)
    /\ Val(call.grid_rows) # frame.detected_rows
    /\ result.value.grid_size = <<Val(call.grid_rows), frame.detected_cols>>

(***************************************************************************)
(* load_into_tree.                                                         *)
(***************************************************************************)
\* C10: load_into_tree on a decodable screenshot returns a fresh tree with
\* exactly one page, the page synthesized from the screenshot, whose id is
\* "screenshot_" + the file stem and is the tree's root_id; the processor's
\* own tree and fields stay as they were
C10_LoadIntoTreeFreshSinglePage ==
    /\ (pc = "done" /\ call.op = "load_into_tree") =>
          /\ result.kind = "tree"
          /\ result.value.pages = <<page>>
          /\ page.id = <<"screenshot_">> \o Images[call.image_path].stem
          /\ result.value.root_id = page.id
    /\ tree = [p \in Procs |-> EmptyTree]
    /\ save_debug_images = [p \in Procs |-> p = 2]

\* load_into_tree has returned a tree for the second time on a screenshot
\* whose page has buttons
C10_Witness ==
    /\ pc = "done" /\ call.op = "load_into_tree"
    /\ prev.kind = "tree"
    /\ Len(result.value.pages) = 1
    /\ result.value.pages[1].buttons # <<>>

(***************************************************************************)
(* ignore_rows.                                                            *)
(***************************************************************************)
\* the tops of the rows of cells among the boxes detect_grid returned
RowTops == {frame.grid_boxes[i][2] : i \in 1..Len(frame.grid_boxes)}

\* C11: ignore_rows = k skips the first k detected rows before the grid origin
\* is computed: the origin's y is the top of the (k+1)-th detected row of
\* cells, and with k = 0 it is the smallest box y
C11_IgnoreRowsSkipsRows ==
    (/\ IsPageOp(call.op)
     /\ pc \in {"GeometryResolved", "PerCellExtraction", "Assembled", "done"}
     /\ Cardinality(RowTops) > call.ignore_rows) =>
        /\ frame.grid_origin_y \in RowTops
        /\ Cardinality({y \in RowTops : y < frame.grid_origin_y}) = call.ignore_rows

(***************************************************************************)
(* extract_texts.                                                          *)
(***************************************************************************)
\* C12: extract_texts returns exactly the labels, in button order, of the
\* buttons of the page create_page_from_screenshot synthesizes for the image,
\* and every returned string is non-empty
C12_ExtractTextsIsLabelsInOrder ==
    (pc = "done" /\ call.op = "extract_texts") =>
        /\ result.kind = "texts"
        /\ Len(result.value) = Len(page.buttons)
        /\ \A i \in 1..Len(page.buttons) : result.value[i] = page.buttons[i].label
        /\ \A i \in 1..Len(result.value) : result.value[i] # <<>>

\* extract_texts has returned several texts, the first unlike the last
C12_Witness ==
    /\ pc = "done" /\ call.op = "extract_texts"
    /\ Len(result.value) >= 3
    /\ result.value[1] # result.value[Len(result.value)]

(***************************************************************************)
(* Debug files.                                                            *)
(***************************************************************************)
\* a step of a call on a processor whose save_debug_images is disabled
\* leaves the files as they are
DisabledStepWritesNothing ==
    (call' = call /\ ~save_debug_images[call.proc]) => disk' = disk

\* C13: debug files are written only when save_debug_images is enabled: with
\* the flag disabled no step of any operation writes a file; with it enabled
\* a completed create_page_from_screenshot call has written exactly
\* <input>.debug.png and <input>.text_debug.png; the input image is never
\* modified
C13_DebugFilesOnlyWhenEnabled ==
    /\ [][DisabledStepWritesNothing]_vars
    /\ [](/\ disk.stamped = <<>>
          /\ "" \notin disk.written
          /\ (/\ pc = "done" /\ call.op = "create_page_from_screenshot"
              /\ save_debug_images[call.proc]) =>
                 disk.written = {".debug.png", ".text_debug.png"})

\* a first create_page_from_screenshot call, on the processor with the flag
\* enabled, has returned a page with buttons and the two files are written
C13_Witness ==
    /\ pc = "done" /\ call.op = "create_page_from_screenshot"
    /\ save_debug_images[call.proc]
    /\ prev.kind = "none"
    /\ page.buttons # <<>>
    /\ disk.written = {DebugPath(call.image_path)[2], TextDebugPath(call.image_path)[2]}

(***************************************************************************)
(* The sweep of detect_grid.                                               *)
(***************************************************************************)
\* a direct detect_grid call on a decodable image is over
DetectGridOver ==
    /\ call.op = "detect_grid"
    /\ pc \in {"done", "raised"}
    /\ Images[call.image_path].decodable

\* C14: every detect_grid call ends, after at most 16 attempts with a hint
\* and 12 without, no combination tried twice, in exactly one of: an accepted
\* detection, the fallback grid, the "No cells detected" failure
C14_SweepBoundedThreeOutcomes ==
    DetectGridOver =>
        /\ pc = "raised" => result.value = "NoCellsDetected"
        /\ pc = "done" =>
              /\ Len(result.value.attempts) <=
                    (IF HasHint(call.grid_rows, call.grid_cols) THEN 16 ELSE 12)
              /\ \A i, j \in 1..Len(result.value.attempts) :
                    i # j => result.value.attempts[i] # result.value.attempts[j]
              /\ result.value.best_boxes # <<>>
              /\ result.value.accepted \/ HasHint(call.grid_rows, call.grid_cols)

(***************************************************************************)
(* Which cells get a button.                                               *)
(***************************************************************************)
\* the OCR fragments of the search region of cell (row, col), in OCR order
CellFragments(row, col) ==
    LET img == [Images[call.image_path] EXCEPT !.texts = frame.img_texts]
        area == SearchArea(img, frame, row, col)
    IN SelectSeq(frame.img_texts,
                 LAMBDA f : InCrop(f, area[1], area[2], area[3], area[4]))

\* a fragment with confidence >= 0.3 whose stripped text is non-empty and is
\* not "vocab" or "menu" in any case
Survives(f) ==
    /\ f.conf >= 30
    /\ Strip(f.text) # <<>>
    /\ Lower(Strip(f.text)) \notin { <<"v", "o", "c", "a", "b">>, <<"m", "e", "n", "u">> }

RECURSIVE JoinedBySpaces(_)
\* the stripped texts of the fragments, one space between neighbours
JoinedBySpaces(fs) ==
    IF fs = <<>> THEN <<>>
    ELSE IF Len(fs) = 1 THEN Strip(fs[1].text)
    ELSE Strip(fs[1].text) \o <<" ">> \o JoinedBySpaces(Tail(fs))

\* C15: a returned page has a button at (row, col) if and only if the OCR of
\* that cell's search region gave at least one surviving fragment; the label
\* is the surviving fragments joined by single spaces in OCR order, never
\* empty
C15_ButtonIffSurvivingText ==
    ReturnedPage =>
        \A row \in 0..(page.grid_size[1] - 1) : \A col \in 0..(page.grid_size[2] - 1) :
            LET kept == SelectSeq(CellFragments(row, col), Survives)
                here == {i \in 1..Len(page.buttons) :
                            page.buttons[i].position = <<row, col>>}
            IN /\ (here # {}) <=> (kept # <<>>)
               /\ \A i \in here : /\ page.buttons[i].label = JoinedBySpaces(kept)
                                  /\ page.buttons[i].label # <<>>

\* a returned page with a cell whose only fragment is "Menu" and that has no
\* button, and a cell whose button joins two fragments
C15_Witness ==
    /\ ReturnedPage
    /\ \E row \in 0..(page.grid_size[1] - 1) : \E col \in 0..(page.grid_size[2] - 1) :
          /\ Len(CellFragments(row, col)) = 1
          /\ CellFragments(row, col)[1].text = <<"M", "e", "n", "u">>
          /\ \A i \in 1..Len(page.buttons) : page.buttons[i].position # <<row, col>>
    /\ \E row \in 0..(page.grid_size[1] - 1) : \E col \in 0..(page.grid_size[2] - 1) :
          /\ Len(SelectSeq(CellFragments(row, col), Survives)) = 2
          /\ \E i \in 1..Len(page.buttons) : page.buttons[i].position = <<row, col>>

(***************************************************************************)
(* The boxes detect_grid returns.                                          *)
(***************************************************************************)
\* the box has a positive size and lies within the image
BoxWithinImage(box, img) ==
    /\ box[1] >= 0 /\ box[2] >= 0
    /\ box[3] > 0 /\ box[4] > 0
    /\ box[1] + box[3] <= img.width
    /\ box[2] + box[4] <= img.height

\* C16: every box (x, y, w, h) returned by detect_grid, detected or
\* synthesized by the fallback, has x >= 0, y >= 0, w > 0, h > 0 and lies
\* within the image, for every image size and every supplied rows and cols
C16_BoxesWithinImage ==
    (call.op = "detect_grid" /\ pc = "done") =>
        \A i \in 1..Len(result.value.best_boxes) :
            BoxWithinImage(result.value.best_boxes[i], Images[call.image_path])

\* the range wide contains the range narrow and is not equal to it
Wider(wide, narrow) ==
    wide[1] <= narrow[1] /\ narrow[2] <= wide[2] /\ wide # narrow

\* C17 as stated: in the sweep the area ranges and the aspect ranges are tried
\* from most restrictive to most permissive, with and without a hint: a more
\* permissive range is never tried before a more restrictive one
C17_RestrictiveFirst ==
    (call.op = "detect_grid" /\ pc = "done") =>
        \A i, j \in 1..Len(result.value.attempts) :
            LET a == result.value.attempts[i]
                b == result.value.attempts[j]
            IN i < j =>
                 /\ ~Wider(a[1], b[1])
                 /\ a[1] = b[1] => ~Wider(a[2], b[2])

\* C17, amended: the sweep follows a fixed order: without a hint the area
\* ranges go from most restrictive to most permissive, with a hint they go
\* from most permissive to most restrictive, and for each area range the
\* aspect ranges go from most permissive to most restrictive
C17_FixedSweepOrder ==
    (call.op = "detect_grid" /\ pc = "done") =>
        \A i, j \in 1..Len(result.value.attempts) :
            LET a == result.value.attempts[i]
                b == result.value.attempts[j]
            IN i < j =>
                 /\ IF HasHint(call.grid_rows, call.grid_cols)
                    THEN a[1] = b[1] \/ Wider(a[1], b[1])
                    ELSE a[1] = b[1] \/ Wider(b[1], a[1])
                 /\ a[1] = b[1] => Wider(a[2], b[2])

\* detect_grid without a hint accepted a detection in its second area range,
\* after the four aspect ranges of the first
C17_Witness ==
    /\ call.op = "detect_grid" /\ pc = "done"
    /\ ~HasHint(call.grid_rows, call.grid_cols)
    /\ Len(result.value.attempts) = 5
    /\ result.value.attempts[5][1] # result.value.attempts[1][1]

\* the boxes of the k-th combination of the sweep of the current call
AttemptBoxes(k) ==
    TryDetection(Images[call.image_path],
                 Combination(call.grid_rows, call.grid_cols, k)[1],
                 Combination(call.grid_rows, call.grid_cols, k)[2])

\* at least 50% of rows x cols boxes when rows and cols were supplied, at
\* least 12 boxes without a hint
MeetsStatedThreshold(boxes) ==
    IF HasHint(call.grid_rows, call.grid_cols)
    THEN 2 * Len(boxes) >= Val(call.grid_rows) * Val(call.grid_cols)
    ELSE Len(boxes) >= 12

\* a non-empty list of at least 50% of rows x cols boxes when rows and cols
\* were supplied and are not zero, of at least 12 boxes otherwise
MeetsThreshold(boxes) ==
    /\ boxes # <<>>
    /\ IF /\ HasHint(call.grid_rows, call.grid_cols)
          /\ Val(call.grid_rows) # 0 /\ Val(call.grid_cols) # 0
       THEN 2 * Len(boxes) >= Val(call.grid_rows) * Val(call.grid_cols)
       ELSE Len(boxes) >= 12

\* detect_grid accepted the first of the combinations in meeting, tried none
\* after it and returned boxes of that combination; with meeting empty it
\* accepted nothing
AcceptsFirstOf(meeting) ==
    IF meeting = {}
    THEN pc = "done" => ~result.value.accepted
    ELSE LET first == CHOOSE k \in meeting : \A m \in meeting : k <= m
         IN /\ pc = "done"
            /\ result.value.accepted
            /\ Len(result.value.attempts) = first
            /\ result.value.attempts[first] =
                  Combination(call.grid_rows, call.grid_cols, first)
            /\ \E boxes \in {AttemptBoxes(first)} :
                  \A i \in 1..Len(result.value.best_boxes) :
                      \E j \in 1..Len(boxes) : result.value.best_boxes[i] = boxes[j]

\* C18 as stated: detect_grid accepts the first combination, in sweep order,
\* that meets the threshold (50% of rows x cols boxes when rows and cols were
\* supplied, 12 boxes without a hint), tries none after it and returns the
\* boxes of that combination
C18_FirstMeetingStatedThreshold ==
    DetectGridOver =>
        AcceptsFirstOf({k \in 1..NumCombinations(call.grid_rows, call.grid_cols) :
                           MeetsStatedThreshold(AttemptBoxes(k))})

\* C18, amended: detect_grid accepts the first combination, in sweep order,
\* whose box list is non-empty and meets the threshold, tries none after it
\* and returns boxes of that combination; the threshold is 50% of rows x cols
\* when rows and cols are both supplied and not zero, and 12 boxes otherwise
C18_FirstMeetingThreshold ==
    DetectGridOver =>
        AcceptsFirstOf({k \in 1..NumCombinations(call.grid_rows, call.grid_cols) :
                           MeetsThreshold(AttemptBoxes(k))})

\* detect_grid accepted, for a hint, a detection of fewer than 12 boxes at a
\* combination that is not the first of the sweep
C18_Witness ==
    /\ call.op = "detect_grid" /\ pc = "done"
    /\ HasHint(call.grid_rows, call.grid_cols)
    /\ result.value.accepted
    /\ Len(result.value.attempts) > 1
    /\ Len(result.value.best_boxes) < 12

\* C19: when a hint (rows, cols) is supplied and no combination meets its
\* threshold, detect_grid returns the fallback grid: exactly rows x cols boxes
\* of equal size within the image, the first at the origin, exactly one for
\* each grid position (row, col), none dropped by position assignment
C19_FallbackIsFullGrid ==
    (/\ DetectGridOver
     /\ HasHint(call.grid_rows, call.grid_cols)
     /\ \A k \in 1..NumCombinations(call.grid_rows, call.grid_cols) :
           ~MeetsStatedThreshold(AttemptBoxes(k))) =>
        /\ pc = "done"
        /\ ~result.value.accepted
        /\ Len(result.value.best_boxes) = Val(call.grid_rows) * Val(call.grid_cols)
        /\ \A i \in 1..Len(result.value.best_boxes) :
              /\ result.value.best_boxes[i][3] = result.value.best_boxes[1][3]
              /\ result.value.best_boxes[i][4] = result.value.best_boxes[1][4]
        /\ result.value.best_boxes[1][1] = 0 /\ result.value.best_boxes[1][2] = 0
        /\ \A row \in 0..(Val(call.grid_rows) - 1) :
           \A col \in 0..(Val(call.grid_cols) - 1) :
              Cardinality({i \in 1..Len(result.value.best_boxes) :
                  GetGridPosition(Images[call.image_path], Val(call.grid_cols),
                                  Val(call.grid_rows), result.value.best_boxes[i])
                  = <<row, col>>}) = 1

(***************************************************************************)
(* The assignment of positions.                                            *)
(***************************************************************************)
\* the boxes of the finished call in the order they were detected (or
\* synthesized), before line 200 sorts them
DetectedBoxes ==
    IF result.value.accepted
    THEN AttemptBoxes(Len(result.value.attempts))
    ELSE FallbackGrid(Images[call.image_path], Val(call.grid_rows),
                      Val(call.grid_cols))

\* the position of the cell of the returned grid that holds the box's centre
PositionOf(box) ==
    GetGridPosition(Images[call.image_path], result.value.grid_width,
                    result.value.grid_height, box)

\* the returned list is non-empty, ordered by (row, col) with no position
\* twice, made of boxes of detected, and holds a box for the position of
\* every box of detected
OnePerPosition(detected) ==
    /\ result.value.best_boxes # <<>>
    /\ \A i, j \in 1..Len(result.value.best_boxes) :
          i < j => LexLess(PositionOf(result.value.best_boxes[i]),
                           PositionOf(result.value.best_boxes[j]))
    /\ \A i \in 1..Len(result.value.best_boxes) :
          \E j \in 1..Len(detected) : result.value.best_boxes[i] = detected[j]
    /\ \A j \in 1..Len(detected) :
          \E i \in 1..Len(result.value.best_boxes) :
              PositionOf(result.value.best_boxes[i]) = PositionOf(detected[j])

\* the indices of the boxes of detected that share the position of box
Rivals(detected, box) ==
    {j \in 1..Len(detected) : PositionOf(detected[j]) = PositionOf(box)}

\* C20 as stated: detect_grid keeps at most one box per position: the returned
\* list is non-empty, holds no two boxes with the same position, is ordered by
\* (row, col), and of several boxes with the same position the one retained
\* is the first detected
C20_FirstDetectedWins ==
    (call.op = "detect_grid" /\ pc = "done") =>
        \E detected \in {DetectedBoxes} :
            /\ OnePerPosition(detected)
            /\ \A i \in 1..Len(result.value.best_boxes) :
                  \E rivals \in {Rivals(detected, result.value.best_boxes[i])} :
                  \E j \in rivals :
                      /\ result.value.best_boxes[i] = detected[j]
                      /\ \A m \in rivals : j <= m

\* C20, amended: detect_grid keeps at most one box per position: the returned
\* list is non-empty, holds no two boxes with the same position, is ordered by
\* (row, col), and of several boxes with the same position the one retained
\* is the first in (y, x) order, the earlier detected of two with the same
\* (y, x)
C20_TopLeftWins ==
    (call.op = "detect_grid" /\ pc = "done") =>
        \E detected \in {DetectedBoxes} :
            /\ OnePerPosition(detected)
            /\ \A i \in 1..Len(result.value.best_boxes) :
                  \E rivals \in {Rivals(detected, result.value.best_boxes[i])} :
                  \E j \in rivals :
                      /\ result.value.best_boxes[i] = detected[j]
                      /\ \A m \in rivals :
                            LET kj == <<detected[j][2], detected[j][1]>>
                                km == <<detected[m][2], detected[m][1]>>
                            IN LexLess(kj, km) \/ (kj = km /\ j <= m)

\* detect_grid dropped boxes of an accepted detection and kept, for some
\* position, a box that was not the first detected of that position
C20_Witness ==
    /\ call.op = "detect_grid" /\ pc = "done"
    /\ result.value.accepted
    /\ \E detected \in {DetectedBoxes} :
          /\ Len(result.value.best_boxes) < Len(detected)
          /\ \E i \in 1..Len(result.value.best_boxes) :
                \E m \in Rivals(detected, result.value.best_boxes[i]) :
                    /\ detected[m] # result.value.best_boxes[i]
                    /\ \A j \in Rivals(detected, result.value.best_boxes[i]) : m <= j

(***************************************************************************)
(* The inference of the dimensions.                                        *)
(***************************************************************************)
\* the number of gaps between neighbours of the sorted list that exceed both
\* 1.2 times the median gap and 0.8 times the mean gap
WideGaps(sorted) ==
    LET n == Len(sorted) - 1
        gap(i) == sorted[i + 1] - sorted[i]
        \* the gaps not above gap(i), and those not below it
        upto(i) == Cardinality({k \in 1..n : gap(k) <= gap(i)})
        from(i) == Cardinality({k \in 1..n : gap(k) >= gap(i)})
        \* a lower and an upper middle value of the gaps
        lo == CHOOSE i \in 1..n : 2 * upto(i) >= n /\ 2 * from(i) >= n
                  /\ \A k \in 1..n : (2 * upto(k) >= n /\ 2 * from(k) >= n)
                                         => gap(i) <= gap(k)
        hi == CHOOSE i \in 1..n : 2 * upto(i) >= n /\ 2 * from(i) >= n
                  /\ \A k \in 1..n : (2 * upto(k) >= n /\ 2 * from(k) >= n)
                                         => gap(i) >= gap(k)
    IN IF n < 1 THEN 0
       ELSE Cardinality({i \in 1..n :
                /\ 10 * gap(i) > 6 * (gap(lo) + gap(hi))
                /\ 5 * n * gap(i) > 4 * (sorted[n + 1] - sorted[1])})

\* C21: when detect_grid infers the dimensions, the dimension of each axis is
\* one plus the number of gaps between the sorted box centres of that axis
\* that exceed both 1.2 times the median gap and 0.8 times the mean gap, and
\* both inferred dimensions are at least 1
C21_InferredDimensions ==
    (call.op = "detect_grid" /\ pc = "done"
        /\ ~HasHint(call.grid_rows, call.grid_cols)) =>
        \E detected \in {DetectedBoxes} :
            /\ detected # <<>>
            /\ result.value.grid_width =
                  1 + WideGaps(SortInts([i \in 1..Len(detected) |->
                                  2 * detected[i][1] + detected[i][3]]))
            /\ result.value.grid_height =
                  1 + WideGaps(SortInts([i \in 1..Len(detected) |->
                                  2 * detected[i][2] + detected[i][4]]))
            /\ result.value.grid_width >= 1
            /\ result.value.grid_height >= 1

\* detect_grid inferred several columns and several rows from boxes of which
\* some share a centre coordinate
C21_Witness ==
    /\ call.op = "detect_grid" /\ pc = "done"
    /\ ~HasHint(call.grid_rows, call.grid_cols)
    /\ result.value.grid_width >= 2
    /\ result.value.grid_height >= 2
    /\ Len(result.value.best_boxes) > result.value.grid_width

(***************************************************************************)
(* Nested contours.                                                        *)
(***************************************************************************)
\* box inner lies entirely inside box outer and is not equal to it
Inside(inner, outer) ==
    /\ inner # outer
    /\ outer[1] <= inner[1] /\ inner[1] + inner[3] <= outer[1] + outer[3]
    /\ outer[2] <= inner[2] /\ inner[2] + inner[4] <= outer[2] + outer[4]

\* C22: the dedup pass of a detection attempt prevents double-counting nested
\* contours: in the box list of the accepted attempt no box lies entirely
\* inside another box of the list, whatever order the contours arrive in
C22_NoNestedBoxes ==
    (call.op = "detect_grid" /\ pc = "done" /\ result.value.accepted) =>
        \E detected \in {DetectedBoxes} :
            \A i, j \in 1..Len(detected) : ~Inside(detected[i], detected[j])

(***************************************************************************)
(* The texts and boxes of merged regions.                                  *)
(***************************************************************************)
\* the last call of merge_nearby_regions has merged a list of two regions
\* into one
MergedPair == passes >= 1 /\ Len(regions) = 2 /\ Len(merged) = 1

\* C23: when merge_nearby_regions merges two fragments, their texts are
\* joined with a space only when both adjoining characters are alphanumeric,
\* which preserves compact tokens: "3" and "pm" merge to "3pm", while two
\* words merge with a single space between them
C23_CompactTokensPreserved ==
    MergedPair =>
        LET text1 == regions[1].text
            text2 == regions[2].text
        IN /\ merged[1].text \in {text1 \o text2, text1 \o <<" ">> \o text2}
           /\ merged[1].text = text1 \o <<" ">> \o text2 =>
                 IsAlnum(text1[Len(text1)]) /\ IsAlnum(text2[1])
           /\ (text1 = <<"3">> /\ text2 = <<"p", "m">>) =>
                 merged[1].text = <<"3", "p", "m">>
           /\ (text1 = <<"g", "o">> /\ text2 = <<"t", "o">>) =>
                 merged[1].text = <<"g", "o", " ", "t", "o">>

\* C23, amended: when merge_nearby_regions merges two fragments, their texts
\* are joined with a single space exactly when both adjoining characters are
\* alphanumeric and with nothing otherwise: "3" and "pm" merge to "3 pm", two
\* words merge with a single space between them, and "go to" and "-x" merge
\* to "go to-x"
C23_SpaceBetweenAlnum ==
    MergedPair =>
        LET text1 == regions[1].text
            text2 == regions[2].text
        IN /\ merged[1].text \in {text1 \o text2, text1 \o <<" ">> \o text2}
           /\ merged[1].text = text1 \o <<" ">> \o text2 <=>
                 IsAlnum(text1[Len(text1)]) /\ IsAlnum(text2[1])
           /\ (text1 = <<"3">> /\ text2 = <<"p", "m">>) =>
                 merged[1].text = <<"3", " ", "p", "m">>
           /\ (text1 = <<"g", "o">> /\ text2 = <<"t", "o">>) =>
                 merged[1].text = <<"g", "o", " ", "t", "o">>
           /\ (text1 = <<"g", "o", " ", "t", "o">> /\ text2 = <<"-", "x">>) =>
                 merged[1].text = <<"g", "o", " ", "t", "o", "-", "x">>

\* the fragments "3" and "pm" have been merged into one region, and in the
\* call after it two regions that adjoin at a hyphen
C23_Witness ==
    /\ MergedPair
    /\ \/ regions[1].text = <<"3">> /\ regions[2].text = <<"p", "m">>
          /\ merged[1].text = <<"3", " ", "p", "m">>
       \/ regions[2].text = <<"-", "x">>
          /\ merged[1].text = regions[1].text \o <<"-", "x">>

\* the least confidence and the bounding box of the regions of group
GroupConfidence(group) ==
    CHOOSE c \in {regions[i].confidence : i \in group} :
        \A i \in group : c <= regions[i].confidence

GroupBox(group) ==
    LET left == CHOOSE v \in {regions[i].box[1] : i \in group} :
                    \A i \in group : v <= regions[i].box[1]
        top == CHOOSE v \in {regions[i].box[2] : i \in group} :
                    \A i \in group : v <= regions[i].box[2]
        right == CHOOSE v \in {regions[i].box[1] + regions[i].box[3] : i \in group} :
                    \A i \in group : v >= regions[i].box[1] + regions[i].box[3]
        bottom == CHOOSE v \in {regions[i].box[2] + regions[i].box[4] : i \in group} :
                    \A i \in group : v >= regions[i].box[2] + regions[i].box[4]
    IN <<left, top, right - left, bottom - top>>

\* C24: every region output by merge_nearby_regions has as its box the
\* bounding box of all the input regions merged into it and as its confidence
\* the least of their confidences (each input belongs to exactly one output);
\* every region returned by detect_text_regions has a confidence of at least
\* 0.3
C24_UnionBoxLeastConfidence ==
    /\ passes >= 1 =>
          \E into \in [1..Len(regions) -> 1..Len(merged)] :
              \A k \in 1..Len(merged) :
                  \E group \in {{i \in 1..Len(regions) : into[i] = k}} :
                      /\ group # {}
                      /\ merged[k].box = GroupBox(group)
                      /\ merged[k].confidence = GroupConfidence(group)
    /\ text_regions.kind = "regions" =>
          \A k \in 1..Len(text_regions.value) :
              text_regions.value[k].confidence >= 30

\* merge_nearby_regions has merged regions of different confidences into
\* one, and detect_text_regions has returned regions of the same list, in
\* which the engine found a region of confidence below 0.3
C24_Witness ==
    /\ passes = 1
    /\ \E k \in 1..Len(merged) :
          /\ \A i \in 1..Len(regions) : regions[i].box # merged[k].box
          /\ \E i \in 1..Len(regions) : regions[i].confidence > merged[k].confidence
    /\ text_regions.kind = "regions"
    /\ text_regions.value # <<>>
    /\ \E i \in 1..Len(regions) : regions[i].confidence < 30

(***************************************************************************)
(* The text of detect_cell_content.                                        *)
(***************************************************************************)
\* C25: the text returned by detect_cell_content is, whatever the OCR gives,
\* empty or a string of at least 2 characters that holds only letters,
\* digits, spaces, hyphens and periods, with no whitespace at its ends and no
\* two whitespace characters in a row
C25_TextSanitized ==
    content.kind = "content" =>
        LET text == content.value.text
        IN \/ text = <<>>
           \/ /\ Len(text) >= 2
              /\ \A i \in 1..Len(text) :
                    \/ \E k \in 1..Len(UpperCase) : UpperCase[k] = text[i]
                    \/ \E k \in 1..Len(LowerCase) : LowerCase[k] = text[i]
                    \/ text[i] \in {"0", "1", "2", "3", "4", "5", "6", "7", "8", "9"}
                    \/ text[i] \in {" ", "-", "."}
              /\ text[1] \notin Whitespace
              /\ text[Len(text)] \notin Whitespace
              /\ \A i \in 1..(Len(text) - 1) :
                    ~(text[i] \in Whitespace /\ text[i + 1] \in Whitespace)

(***************************************************************************)
(* The course of a create_page_from_screenshot call.                       *)
(***************************************************************************)
\* the grid positions of rows x cols, row by row
RowMajor(rows, cols) ==
    [i \in 1..(rows * cols) |-> <<(i - 1) \div cols, (i - 1) % cols>>]

\* the geometry create_page_from_screenshot resolved
Geometry(f) ==
    <<f.actual_rows, f.actual_cols, f.grid_boxes, f.grid_origin_x, f.grid_origin_y,
      f.mode_width, f.mode_height>>

\* a step enters a state of the call only from the state before it, the
\* geometry once resolved stays, and a step of the cell loop invokes the OCR
\* once, for the position that is next in row-major order
StepInOrder ==
    /\ (pc' = "GeometryResolved" /\ pc' # pc) => pc = "Init"
    /\ (pc' = "PerCellExtraction" /\ frame' # frame) =>
          /\ pc \in {"GeometryResolved", "PerCellExtraction"}
          /\ Len(frame.ocr_calls) < frame.actual_rows * frame.actual_cols
          /\ frame'.ocr_calls =
                Append(frame.ocr_calls,
                       RowMajor(frame.actual_rows,
                                frame.actual_cols)[Len(frame.ocr_calls) + 1])
          /\ Geometry(frame') = Geometry(frame)
    /\ (pc' = "Assembled" /\ pc' # pc) =>
          pc = "PerCellExtraction" /\ frame' = frame /\ page' = page
    /\ (pc' = "done" /\ pc' # pc /\ IsPageOp(call.op)) =>
          pc = "Assembled" /\ frame' = frame /\ page' = page

\* the positions visited so far are the first of the row-major order, all of
\* them once the loop is over; the buttons were appended in that order
VisitedInOrder ==
    (IsPageOp(call.op)
        /\ pc \in {"GeometryResolved", "PerCellExtraction", "Assembled", "done"}) =>
        \E order \in {RowMajor(frame.actual_rows, frame.actual_cols)} :
            /\ Len(frame.ocr_calls) <= Len(order)
            /\ frame.ocr_calls = SubSeq(order, 1, Len(frame.ocr_calls))
            /\ pc \in {"Assembled", "done"} => frame.ocr_calls = order
            /\ pc = "GeometryResolved" => frame.ocr_calls = <<>>
            /\ \A i \in 1..Len(page.buttons) :
                  /\ page.buttons[i].id = <<"btn_", i - 1>>
                  /\ \E k \in 1..Len(frame.ocr_calls) :
                        frame.ocr_calls[k] = page.buttons[i].position
            /\ \A i, j \in 1..Len(page.buttons) :
                  i < j => LexLess(page.buttons[i].position, page.buttons[j].position)

\* C26: a create_page_from_screenshot call moves through Init,
\* GeometryResolved, PerCellExtraction, Assembled in that order without
\* re-entering a state: geometry is resolved once, each grid position is
\* visited once in row-major order with one OCR invocation per position, and
\* the buttons are appended in that order, so page.buttons is strictly
\* increasing in (row, col) and the i-th button (from 0) has id btn_i
C26_StatesInOrder ==
    /\ [][StepInOrder]_vars
    /\ []VisitedInOrder

\* a call has returned a page of several rows and columns with at least two
\* buttons, some position having given no button
C26_Witness ==
    /\ ReturnedPage
    /\ frame.actual_rows >= 2 /\ frame.actual_cols >= 2
    /\ Len(page.buttons) >= 2
    /\ Len(page.buttons) < Len(frame.ocr_calls)

(***************************************************************************)
(* The trimming of outliers.                                               *)
(***************************************************************************)
\* int(median) of the k-th components of the boxes of boxes_in: the mean,
\* rounded down, of a lower and an upper middle value
PlainMedian(k) ==
    LET n == Len(boxes_in)
        v(i) == boxes_in[i][k]
        upto(i) == Cardinality({j \in 1..n : v(j) <= v(i)})
        from(i) == Cardinality({j \in 1..n : v(j) >= v(i)})
        middle == {v(i) : i \in {j \in 1..n : 2 * upto(j) >= n /\ 2 * from(j) >= n}}
        lo == CHOOSE m \in middle : \A o \in middle : m <= o
        hi == CHOOSE m \in middle : \A o \in middle : m >= o
    IN (lo + hi) \div 2

\* C27: the trimming of outliers never empties the list and never changes the
\* result: the cell width (height) computed as the median after removing the
\* floor(n/10) smallest and the floor(n/10) largest values is the plain median
\* of all box widths (heights)
C27_TrimmingKeepsMedian ==
    mode_size # <<>> =>
        /\ trimmed[1] # <<>> /\ trimmed[2] # <<>>
        /\ Len(trimmed[1]) = Len(boxes_in) - 2 * (Len(boxes_in) \div 10)
        /\ Len(trimmed[2]) = Len(trimmed[1])
        /\ mode_size[1] = PlainMedian(3)
        /\ mode_size[2] = PlainMedian(4)

\* the cell size has been computed from a list of at least ten boxes, of
\* which the widest and the narrowest, trimmed away, differ from the median
C27_Witness ==
    /\ mode_size # <<>>
    /\ Len(boxes_in) >= 10
    /\ Len(trimmed[1]) < Len(boxes_in)
    /\ boxes_in[1][3] > mode_size[1]
    /\ boxes_in[Len(boxes_in)][3] < mode_size[1]

(***************************************************************************)
(* The regions searched for text.                                          *)
(***************************************************************************)
\* C28: for every grid position visited by create_page_from_screenshot the
\* searched region (origin plus col x cell width, row x cell height, widened
\* by the margin and clipped) has a positive width and a positive height and
\* lies within the image
C28_SearchAreaWithinImage ==
    (IsPageOp(call.op) /\ pc \in {"GeometryResolved", "PerCellExtraction"}
        /\ frame.row < frame.actual_rows) =>
        \E img \in {Images[call.image_path]} :
        \E area \in {SearchArea(img, frame, frame.row, frame.col)} :
            /\ area[1] >= 0 /\ area[2] >= 0
            /\ area[3] > 0 /\ area[4] > 0
            /\ area[1] + area[3] <= img.width
            /\ area[2] + area[4] <= img.height

(***************************************************************************)
(* extract_texts against load_into_tree.                                   *)
(***************************************************************************)
\* C29: for every image path extract_texts and load_into_tree agree:
\* extract_texts succeeds exactly when load_into_tree succeeds, and it returns
\* the labels, in order, of the buttons of the single page of the tree
\* load_into_tree returns, also for file names containing "24" or "60"
C29_ExtractTextsAgreesWithLoad ==
    (/\ call.op = "extract_texts"
     /\ pc \in {"done", "raised"}
     /\ prev.kind \in {"tree", "error"}) =>
        /\ pc = "done" <=> prev.kind = "tree"
        /\ (pc = "done" /\ prev.kind = "tree") =>
              /\ Len(prev.value.pages) = 1
              /\ result.value = [i \in 1..Len(prev.value.pages[1].buttons) |->
                                    prev.value.pages[1].buttons[i].label]

(***************************************************************************)
(* Regular lattices.                                                       *)
(***************************************************************************)
\* boxes are the cells of a regular lattice of nrows x ncols: equal sizes,
\* equal spacing on each axis, each cell within its own equal subdivision of
\* the image
IsLattice(boxes, img, nrows, ncols) ==
    /\ Len(boxes) = nrows * ncols
    /\ \E x0 \in {boxes[i][1] : i \in 1..Len(boxes)} :
       \E y0 \in {boxes[i][2] : i \in 1..Len(boxes)} :
       \E pitch_x \in {1} \cup {boxes[i][1] - x0 : i \in 1..Len(boxes)} :
       \E pitch_y \in {1} \cup {boxes[i][2] - y0 : i \in 1..Len(boxes)} :
          /\ pitch_x > 0 /\ pitch_y > 0
          /\ {boxes[i] : i \in 1..Len(boxes)} =
                {<<x0 + c * pitch_x, y0 + r * pitch_y, boxes[1][3], boxes[1][4]>> :
                    r \in 0..(nrows - 1), c \in 0..(ncols - 1)}
          /\ \A r \in 0..(nrows - 1), c \in 0..(ncols - 1) :
                /\ c * img.width <= (x0 + c * pitch_x) * ncols
                /\ (x0 + c * pitch_x + boxes[1][3]) * ncols <= (c + 1) * img.width
                /\ r * img.height <= (y0 + r * pitch_y) * nrows
                /\ (y0 + r * pitch_y + boxes[1][4]) * nrows <= (r + 1) * img.height

\* C30: with no hint, when the accepted boxes form a regular lattice of R rows
\* by C columns with R x C >= 12, detect_grid returns cols = C, rows = R and
\* all R x C boxes, also for lattices of a single row or a single column
C30_LatticeDimensions ==
    (/\ DetectGridOver
     /\ IsNone(call.grid_rows) /\ IsNone(call.grid_cols)
     /\ pc = "done") =>
        \E detected \in {DetectedBoxes} :
            \A nrows \in {n \in 1..Len(detected) : Len(detected) % n = 0} :
            \A ncols \in {Len(detected) \div nrows} :
                (nrows * ncols >= 12
                    /\ IsLattice(detected, Images[call.image_path], nrows, ncols)) =>
                    /\ result.value.grid_width = ncols
                    /\ result.value.grid_height = nrows
                    /\ Len(result.value.best_boxes) = nrows * ncols

====
